---------------------------- MODULE Spec2Model ----------------------------
(***************************************************************************)
(* A model of the handler layer of gost: the protocol auto-dispatcher and  *)
(* its buffered connection (handler.go), the Bypass policy (bypass.go),    *)
(* the caching resolver (resolver) and the node selector strategies        *)
(* (selector).                                                             *)
(*                                                                         *)
(* Each subsystem has its own variables, initial condition and next-state  *)
(* relation, and a specification of its own (SpecAuto, SpecBypass,         *)
(* SpecResolver, SpecRound) in which the other subsystems stay parked in   *)
(* an idle state.  Strings of the program are sequences of one-character   *)
(* strings, so that parsing and matching are computed, not assumed.        *)
(***************************************************************************)
EXTENDS Integers, Sequences, FiniteSets, TLC

VARIABLES
    \* ---- autoHandler / bufferdConn (handler.go)
    options,      \* h.options: [Users |-> number of configured users]
    stream,       \* the bytes the client sends on the connection, in order
    netPos,       \* how many bytes of stream have been read off the net.Conn
    brBuf,        \* bufio.Reader: bytes read off the conn and not yet handed out
    connClosed,   \* conn.Close() has been called
    hpc,          \* position of Handle: "accept", a downstream handler, "done"
    invoked,      \* the downstream handlers invoked for the connection, in order
    got,          \* the bytes the downstream handler has read, in order
    reads,        \* number of Read calls the downstream handler has made
    \* ---- Bypass (bypass.go)
    bpMatchers,   \* bp.matchers
    bpReversed,   \* bp.reversed
    bpPeriod,     \* bp.period, in milliseconds
    rlPC,         \* position of the Reload in progress: "idle" or "scan"
    rlFile,       \* the raw lines the scanner of Reload yields
    rlIdx,        \* the next line of rlFile to scan
    rlErr,        \* scanner.Err() is non-nil once the lines are read
    rlMatchers,   \* the local variable matchers of Reload
    rlPre,        \* history: (matchers, reversed, period) when Reload was called
    cLog,         \* history: the Contains call just made, if it was the last step
    \* ---- resolver
    rsTimeout,    \* r.Timeout, in milliseconds
    rsTTL,        \* r.TTL, in milliseconds
    rsServers,    \* r.Servers
    rsCache,      \* r.mCache: the entries, one per cached name
    now,          \* the wall clock, in milliseconds
    advances,     \* how many times the clock has been advanced
    rvPC,         \* position of the Resolve in progress
    rvName,       \* the name it asks for
    rvTimeout,    \* its local variable timeout
    rvLoadTTL,    \* history: the ttl its loadCache read
    rvDial,       \* the run of the Dial function of its lookup
    rvLast,       \* history: the Resolve that returned last
    \* ---- RoundStrategy
    rrCount,      \* s.count
    rrActive,     \* the goroutines that call Apply
    rrPC,         \* per goroutine: its position in Apply
    rrNodes,      \* per goroutine: the argument nodes of its Apply
    rrOld,        \* per goroutine: its local variable old
    rrPicks,      \* history: the pool and the node of every Apply that returned
    \* ---- defaultSelector
    slNow,        \* the wall clock, in milliseconds
    slCall,       \* history: the Select call made last
    \* ---- obfuscation codec (sni.go)
    cdCall,       \* history: the call of encodeServerName or decodeServerName made last
    \* ---- sniClientConn (sni.go)
    scHost,       \* c.host, the decoy
    scObfuscated, \* c.obfuscated
    scMutex,      \* c.mutex: the goroutine that holds it, or 0
    scPC,         \* per goroutine: its position in Write
    scP,          \* per goroutine: the payload p of its Write
    scB,          \* per goroutine: what obfuscate returned to it
    scWire,       \* what the underlying connection has been given, in order
    scLog,        \* history: the runs of obfuscate in the order they took the mutex
    scWrites,     \* how many Write calls have begun
    \* ---- Hosts (hosts.go)
    hsHosts,      \* h.hosts, or Nil for a nil *Hosts
    hsCall,       \* history: the Lookup call made last
    \* ---- sniHandler (sni.go)
    shOpts,       \* h.options: what the permissions refuse, and the Bypass
    shInput,      \* what the client sends on conn, and where it came from
    shPC,         \* position of Handle
    shB,          \* its local variable b
    shHost,       \* its local variable host
    shConnClosed, \* conn.Close() has been called
    shDialed,     \* Chain.Dial has returned a connection cc
    shCCClosed,   \* cc.Close() has been called
    shUpstream,   \* what cc has been given, in order
    shEvents,     \* history: the calls Handle has made, in order
    \* ---- Init on a handler in use (handler.go)
    hiStart,      \* history: *h.options when Handle(conn) started
    hiSeen,       \* history: the values of *h.options the downstream handler has read
    \* ---- the methods of a Bypass called from several goroutines (bypass.go)
    baMux,        \* bp.mux: the goroutine that holds it, or 0
    baPC,         \* per goroutine: its position in the method it runs
    baFile,       \* per goroutine: the lines its Reload has still to scan
    baLocal,      \* per goroutine: the matcher list it has in a local variable
    baCalls       \* how many calls have begun

autoVars == <<options, stream, netPos, brBuf, connClosed, hpc, invoked, got, reads>>

bypassVars == <<bpMatchers, bpReversed, bpPeriod, rlPC, rlFile, rlIdx, rlErr,
                rlMatchers, rlPre, cLog>>

resolverVars == <<rsTimeout, rsTTL, rsServers, rsCache, now, advances, rvPC,
                  rvName, rvTimeout, rvLoadTTL, rvDial, rvLast>>

roundVars == <<rrCount, rrActive, rrPC, rrNodes, rrOld, rrPicks>>

selectVars == <<slNow, slCall>>

codecVars == <<cdCall>>

sniClientVars ==
    <<scHost, scObfuscated, scMutex, scPC, scP, scB, scWire, scLog, scWrites>>

hostsVars == <<hsHosts, hsCall>>

handlerInitVars == <<hiStart, hiSeen>>

bypassAccessVars == <<baMux, baPC, baFile, baLocal, baCalls>>

sniServerVars ==
    <<shOpts, shInput, shPC, shB, shHost, shConnClosed, shDialed, shCCClosed,
      shUpstream, shEvents>>

vars == <<autoVars, bypassVars, resolverVars, roundVars, selectVars,
          codecVars, sniClientVars, hostsVars, sniServerVars,
          handlerInitVars, bypassAccessVars>>

\* what the steps of one subsystem leave alone
nonAutoVars ==
    <<bypassVars, resolverVars, roundVars, selectVars, codecVars,
      sniClientVars, hostsVars, sniServerVars, handlerInitVars,
      bypassAccessVars>>

nonBypassVars ==
    <<autoVars, resolverVars, roundVars, selectVars, codecVars,
      sniClientVars, hostsVars, sniServerVars, handlerInitVars,
      bypassAccessVars>>

nonResolverVars ==
    <<autoVars, bypassVars, roundVars, selectVars, codecVars, sniClientVars,
      hostsVars, sniServerVars, handlerInitVars, bypassAccessVars>>

nonRoundVars ==
    <<autoVars, bypassVars, resolverVars, selectVars, codecVars,
      sniClientVars, hostsVars, sniServerVars, handlerInitVars,
      bypassAccessVars>>

nonSelectVars ==
    <<autoVars, bypassVars, resolverVars, roundVars, codecVars,
      sniClientVars, hostsVars, sniServerVars, handlerInitVars,
      bypassAccessVars>>

nonCodecVars ==
    <<autoVars, bypassVars, resolverVars, roundVars, selectVars,
      sniClientVars, hostsVars, sniServerVars, handlerInitVars,
      bypassAccessVars>>

nonSniClientVars ==
    <<autoVars, bypassVars, resolverVars, roundVars, selectVars, codecVars,
      hostsVars, sniServerVars, handlerInitVars, bypassAccessVars>>

nonHostsVars ==
    <<autoVars, bypassVars, resolverVars, roundVars, selectVars, codecVars,
      sniClientVars, sniServerVars, handlerInitVars, bypassAccessVars>>

nonSniServerVars ==
    <<autoVars, bypassVars, resolverVars, roundVars, selectVars, codecVars,
      sniClientVars, hostsVars, handlerInitVars, bypassAccessVars>>

nonHandlerInitVars ==
    <<autoVars, bypassVars, resolverVars, roundVars, selectVars, codecVars,
      sniClientVars, hostsVars, sniServerVars, bypassAccessVars>>

nonBypassAccessVars ==
    <<autoVars, bypassVars, resolverVars, roundVars, selectVars, codecVars,
      sniClientVars, hostsVars, sniServerVars, handlerInitVars>>

nonAutoInitVars ==
    <<bypassVars, resolverVars, roundVars, selectVars, codecVars,
      sniClientVars, hostsVars, sniServerVars, bypassAccessVars>>

nonBypassBothVars ==
    <<autoVars, resolverVars, roundVars, selectVars, codecVars,
      sniClientVars, hostsVars, sniServerVars, handlerInitVars>>

-----------------------------------------------------------------------------
(* Bounds of the model *)

\* longest client stream
MaxStream == 3
\* largest len(p) the downstream handler passes to Read
MaxRead == 3
\* size of the bufio.Reader's buffer (bufio's default is 4096; scaled down)
BufSize == 2
\* most users configured
MaxUsers == 1
\* most matchers NewBypass is given
MaxInitMatchers == 1
\* most lines of a reloaded file
MaxLines == 2
\* most advances of the clock
MaxAdvances == 2
\* most nodes in a pool
MaxNodes == 3
\* most calls of Apply
MaxCalls == 6
\* most nodes in the pool given to Select
MaxPool == 2
\* the largest failCount of a node
MaxFailCount == 2
\* most calls of the methods of a Bypass
MaxAccessCalls == 3
\* most chunks the relay passes upstream
MaxRelay == 1
\* most entries of a host table
MaxHosts == 2
\* most bytes of a name given to the codec
MaxNameLen == 2
\* most Write calls on an SNI client connection
MaxWrites == 2

-----------------------------------------------------------------------------
(* Generic helpers *)

Nil == "nil"

Min(a, b) == IF a < b THEN a ELSE b

Max(a, b) == IF a > b THEN a ELSE b

\* s[from..], 1-based, the empty sequence when from is past the end
Drop(s, n) == SubSeq(s, n + 1, Len(s))

Take(s, n) == SubSeq(s, 1, Min(n, Len(s)))

SeqsUpTo(S, n) == UNION {[1..k -> S] : k \in 0..n}

-----------------------------------------------------------------------------
(* Strings: a string of the program is a sequence of one-character strings. *)
(* The operators below are the library functions the code calls, computed   *)
(* on the inputs the model uses.                                            *)

Digits == {"0", "1", "2", "3", "4", "5", "6", "7", "8", "9"}

DigitVal(c) ==
    CASE c = "0" -> 0 [] c = "1" -> 1 [] c = "2" -> 2 [] c = "3" -> 3
      [] c = "4" -> 4 [] c = "5" -> 5 [] c = "6" -> 6 [] c = "7" -> 7
      [] c = "8" -> 8 [] c = "9" -> 9

AllDigits(s) == \A i \in 1..Len(s) : s[i] \in Digits

RECURSIVE DecVal(_)
DecVal(s) ==
    IF s = <<>> THEN 0
    ELSE DecVal(SubSeq(s, 1, Len(s) - 1)) * 10 + DigitVal(s[Len(s)])

\* strings.IndexByte, 1-based; 0 when c does not occur in s
IndexByte(s, c) ==
    IF \E i \in 1..Len(s) : s[i] = c
    THEN CHOOSE i \in 1..Len(s) : s[i] = c /\ \A j \in 1..(i - 1) : s[j] # c
    ELSE 0

\* the last occurrence of c in s, 1-based; 0 when there is none
LastIndexByte(s, c) ==
    IF \E i \in 1..Len(s) : s[i] = c
    THEN CHOOSE i \in 1..Len(s) : s[i] = c /\ \A j \in (i + 1)..Len(s) : s[j] # c
    ELSE 0

\* strings.HasPrefix
HasPrefix(s, p) == Len(s) >= Len(p) /\ SubSeq(s, 1, Len(p)) = p

WhiteSpace == {" ", "\t", "\r", "\n"}

\* strings.TrimSpace
RECURSIVE TrimLeft(_)
TrimLeft(s) ==
    IF s # <<>> /\ s[1] \in WhiteSpace THEN TrimLeft(Tail(s)) ELSE s

RECURSIVE TrimRight(_)
TrimRight(s) ==
    IF s # <<>> /\ s[Len(s)] \in WhiteSpace
    THEN TrimRight(SubSeq(s, 1, Len(s) - 1)) ELSE s

TrimSpace(s) == TrimRight(TrimLeft(s))

\* strings.Replace(line, "\t", " ", -1)
TabsToSpaces(s) == [i \in 1..Len(s) |-> IF s[i] = "\t" THEN " " ELSE s[i]]

\* strings.Split(s, sep) for a one-character sep
RECURSIVE Split(_, _)
Split(s, sep) ==
    LET i == IndexByte(s, sep) IN
    IF i = 0 THEN <<s>>
    ELSE <<SubSeq(s, 1, i - 1)>> \o Split(Drop(s, i), sep)

\* The loop the Reload functions share: split on spaces, trim each piece,
\* keep the non-empty ones.
RECURSIVE NonEmptyTrimmed(_)
NonEmptyTrimmed(ps) ==
    IF ps = <<>> THEN <<>>
    ELSE LET t == TrimSpace(Head(ps)) IN
         (IF t = <<>> THEN <<>> ELSE <<t>>) \o NonEmptyTrimmed(Tail(ps))

Fields(line) == NonEmptyTrimmed(Split(line, " "))

\* The head of every Reload loop: cut the comment, tabs to spaces, trim.
CleanLine(raw) ==
    LET n    == IndexByte(raw, "#")
        line == IF n > 0 THEN SubSeq(raw, 1, n - 1) ELSE raw
    IN TrimSpace(TabsToSpaces(line))

\* strconv.Atoi: an optional sign and decimal digits; val is 0 on a syntax
\* error (values stay far below the int range in the model).
Atoi(s) ==
    LET signed == s # <<>> /\ s[1] \in {"+", "-"}
        d      == IF signed THEN Tail(s) ELSE s
    IN IF d = <<>> \/ ~AllDigits(d)
       THEN [val |-> 0, ok |-> FALSE]
       ELSE [val |-> IF s[1] = "-" THEN 0 - DecVal(d) ELSE DecVal(d), ok |-> TRUE]

\* strconv.ParseBool: val is false on an error
ParseBool(s) ==
    IF s \in {<<"1">>, <<"t">>, <<"T">>, <<"t","r","u","e">>,
              <<"T","R","U","E">>, <<"T","r","u","e">>}
    THEN [val |-> TRUE, ok |-> TRUE]
    ELSE IF s \in {<<"0">>, <<"f">>, <<"F">>, <<"f","a","l","s","e">>,
                   <<"F","A","L","S","E">>, <<"F","a","l","s","e">>}
    THEN [val |-> FALSE, ok |-> TRUE]
    ELSE [val |-> FALSE, ok |-> FALSE]

\* One second, in the model's unit of time and duration: the millisecond.
Second == 1000

\* time.ParseDuration on the forms the model uses: "0", and an optional sign,
\* decimal digits and the unit "s" or "ms"; val is 0 on an error.
ParseDuration(s) ==
    LET signed == s # <<>> /\ s[1] \in {"+", "-"}
        neg    == s # <<>> /\ s[1] = "-"
        d      == IF signed THEN Tail(s) ELSE s
        isMs   == Len(d) >= 3 /\ SubSeq(d, Len(d) - 1, Len(d)) = <<"m", "s">>
        isS    == ~isMs /\ Len(d) >= 2 /\ d[Len(d)] = "s"
        num    == IF isMs THEN SubSeq(d, 1, Len(d) - 2)
                  ELSE IF isS THEN SubSeq(d, 1, Len(d) - 1) ELSE <<>>
        mag    == DecVal(num) * (IF isMs THEN 1 ELSE Second)
    IN IF d = <<"0">> THEN [val |-> 0, ok |-> TRUE]
       ELSE IF num = <<>> \/ ~AllDigits(num) THEN [val |-> 0, ok |-> FALSE]
       ELSE [val |-> IF neg THEN 0 - mag ELSE mag, ok |-> TRUE]

\* net.SplitHostPort; host and port are empty on an error
SplitHostPort(hostport) ==
    LET bad == [host |-> <<>>, port |-> <<>>, ok |-> FALSE]
        i   == LastIndexByte(hostport, ":")
    IN IF i = 0 THEN bad
       ELSE IF hostport[1] = "["
       THEN LET end == IndexByte(hostport, "]") IN
            IF end = 0 \/ end + 1 # i THEN bad
            ELSE IF IndexByte(Drop(hostport, 1), "[") > 0
                    \/ IndexByte(Drop(hostport, end), "]") > 0 THEN bad
            ELSE [host |-> SubSeq(hostport, 2, end - 1),
                  port |-> Drop(hostport, i), ok |-> TRUE]
       ELSE LET host == SubSeq(hostport, 1, i - 1) IN
            IF IndexByte(host, ":") > 0 THEN bad
            ELSE IF IndexByte(hostport, "[") > 0 \/ IndexByte(hostport, "]") > 0
            THEN bad
            ELSE [host |-> host, port |-> Drop(hostport, i), ok |-> TRUE]

\* net.JoinHostPort for a host without a colon
JoinHostPort(host, port) == host \o <<":">> \o port

\* One decimal field of a dotted-quad address: 1 to 3 digits, at most 255, no
\* leading zero.
IsOctet(f) ==
    /\ Len(f) \in 1..3
    /\ AllDigits(f)
    /\ (Len(f) > 1 => f[1] # "0")
    /\ DecVal(f) <= 255

\* net.ParseIP on strings that are not IPv6 text: the four octets of a
\* dotted-quad IPv4 address, or the nil IP, which is the empty sequence.
ParseIP(s) ==
    LET fs == Split(s, ".") IN
    IF Len(fs) = 4 /\ \A i \in 1..4 : IsOctet(fs[i])
    THEN [i \in 1..4 |-> DecVal(fs[i])]
    ELSE <<>>

Pow2(n) == CASE n = 0 -> 1 [] n = 1 -> 2 [] n = 2 -> 4 [] n = 3 -> 8
             [] n = 4 -> 16 [] n = 5 -> 32 [] n = 6 -> 64 [] n = 7 -> 128
             [] n = 8 -> 256

\* The leading `bits` bits of the two addresses agree.
SamePrefix(ip, net, bits) ==
    \A i \in 1..4 :
        LET keep == Max(0, Min(8, bits - 8 * (i - 1))) IN
        ip[i] \div Pow2(8 - keep) = net[i] \div Pow2(8 - keep)

\* net.ParseCIDR for IPv4: the address and the prefix length of the network
ParseCIDR(s) ==
    LET bad == [ip |-> <<>>, bits |-> 0, ok |-> FALSE]
        i   == IndexByte(s, "/")
    IN IF i = 0 THEN bad
       ELSE LET ip   == ParseIP(SubSeq(s, 1, i - 1))
                mask == Drop(s, i)
            IN IF ip = <<>> \/ mask = <<>> \/ ~AllDigits(mask) \/ Len(mask) > 2
               THEN bad
               ELSE IF DecVal(mask) > 32 THEN bad
               ELSE [ip |-> ip, bits |-> DecVal(mask), ok |-> TRUE]

\* glob.Match for patterns made of literal characters, '*' and '?'
RECURSIVE GlobMatch(_, _)
GlobMatch(p, s) ==
    IF p = <<>> THEN s = <<>>
    ELSE IF p[1] = "*"
    THEN \E k \in 0..Len(s) : GlobMatch(Tail(p), Drop(s, k))
    ELSE IF s = <<>> THEN FALSE
    ELSE IF p[1] = "?" THEN GlobMatch(Tail(p), Tail(s))
    ELSE p[1] = s[1] /\ GlobMatch(Tail(p), Tail(s))

-----------------------------------------------------------------------------
(* Matcher and Bypass: bypass.go *)

\* A Matcher is a record; NilMatcher is the nil Matcher NewMatcher("") returns.
NilMatcher == [kind |-> "nil", ip |-> <<>>, bits |-> 0, pattern |-> <<>>, glob |-> <<>>]

IPMatcher(ip) ==
    [kind |-> "ip", ip |-> ip, bits |-> 32, pattern |-> <<>>, glob |-> <<>>]

CIDRMatcher(inet) ==
    [kind |-> "cidr", ip |-> inet.ip, bits |-> inet.bits, pattern |-> <<>>, glob |-> <<>>]

\* A pattern with a leading '.' is stored without it and compiled as "*" + pattern.
DomainMatcher(pattern) ==
    IF HasPrefix(pattern, <<".">>)
    THEN [kind |-> "domain", ip |-> <<>>, bits |-> 0,
          pattern |-> Tail(pattern), glob |-> <<"*">> \o pattern]
    ELSE [kind |-> "domain", ip |-> <<>>, bits |-> 0,
          pattern |-> pattern, glob |-> pattern]

NewMatcher(pattern) ==
    IF pattern = <<>> THEN NilMatcher
    ELSE IF ParseIP(pattern) # <<>> THEN IPMatcher(ParseIP(pattern))
    ELSE IF ParseCIDR(pattern).ok THEN CIDRMatcher(ParseCIDR(pattern))
    ELSE DomainMatcher(pattern)

\* Matcher.Match(v) of the three matcher types
Match(m, v) ==
    CASE m.kind = "ip"     -> ParseIP(v) # <<>> /\ ParseIP(v) = m.ip
      [] m.kind = "cidr"   -> ParseIP(v) # <<>> /\ SamePrefix(ParseIP(v), m.ip, m.bits)
      [] m.kind = "domain" -> v = m.pattern \/ GlobMatch(m.glob, v)
      [] OTHER             -> FALSE

\* Lines 157-161 of Contains with the port check dropped: the host whenever
\* the address splits.
StripAnyPort(addr) ==
    LET hp == SplitHostPort(addr) IN
    IF hp.host # <<>> /\ hp.port # <<>> THEN hp.host ELSE addr

\* Lines 157-161 of Contains: the host when the address splits into a
\* non-empty host and a port that Atoi reads as a number above 0.
StripPort(addr) ==
    LET hp == SplitHostPort(addr) IN
    IF hp.host # <<>> /\ hp.port # <<>> /\ Atoi(hp.port).val > 0
    THEN hp.host ELSE addr

\* The loop of Contains from matcher i on: [matched, tried], tried counting
\* the Match calls made.
RECURSIVE Walk(_, _, _, _)
Walk(matchers, i, v, tried) ==
    IF i > Len(matchers) THEN [matched |-> FALSE, tried |-> tried]
    ELSE IF matchers[i] = NilMatcher THEN Walk(matchers, i + 1, v, tried)
    ELSE IF Match(matchers[i], v) THEN [matched |-> TRUE, tried |-> tried + 1]
    ELSE Walk(matchers, i + 1, v, tried + 1)

\* The return expression of Contains with the reversed branch lost.
PolarityIgnoringReversed(reversed, matched) == matched

\* The return expression of Contains
Polarity(reversed, matched) ==
    (~reversed /\ matched) \/ (reversed /\ ~matched)

\* bp.Contains(addr) on a Bypass holding (matchers, reversed)
Contains(matchers, reversed, addr) ==
    LET v == StripPort(addr)
        w == Walk(matchers, 1, v, 0)
    IN [result |-> Polarity(reversed, w.matched), tried |-> w.tried, matchedAs |-> v]

\* -- inputs

HostXAIo == <<"x", ".", "a", ".", "i", "o">>
HostIP == <<"1", ".", "2", ".", "3", ".", "4">>

\* hosts asked about: a domain name and an IPv4 literal
Hosts == {HostXAIo, HostIP}

Port80 == <<"8", "0">>
Port0 == <<"0">>
PortHttp == <<"h", "t", "t", "p">>

\* port strings asked about: numeric and above 0, numeric and 0, not numeric
Ports == {Port80, Port0, PortHttp}

Addrs == Hosts \cup {JoinHostPort(h, p) : h \in Hosts, p \in Ports}

PatDotAIo == <<".", "a", ".", "i", "o">>
PatCIDR == <<"1", ".", "2", ".", "3", ".", "0", "/", "2", "4">>

\* patterns NewBypass is built from; the empty pattern gives a nil Matcher
InitPatterns == {<<>>, PatDotAIo, PatCIDR, HostIP}

LineReverseTrue == <<"r", "e", "v", "e", "r", "s", "e", " ", "t", "r", "u", "e">>
LineReload == <<"r", "e", "l", "o", "a", "d", "\t", "1", "s", " ", "#", "c">>

\* raw lines of a reloaded file
FileLines == {LineReverseTrue, LineReload, PatDotAIo}

\* -- Reload

\* One pass of the scanner loop of Reload over the raw line: st holds the
\* local matchers and the fields reversed and period of the Bypass.
Bypass_ReloadLine(st, raw) ==
    LET line == CleanLine(raw)
        ss   == Fields(line)
    IN IF line = <<>> THEN st
       ELSE IF HasPrefix(line, <<"r","e","l","o","a","d"," ">>) /\ Len(ss) = 2
       THEN [st EXCEPT !.period = ParseDuration(ss[2]).val]
       ELSE IF HasPrefix(line, <<"r","e","v","e","r","s","e"," ">>) /\ Len(ss) = 2
       THEN [st EXCEPT !.reversed = ParseBool(ss[2]).val]
       ELSE [st EXCEPT !.matchers = Append(@, NewMatcher(line))]

\* -- the Bypass as a state machine

BypassState(m, r, p) == [matchers |-> m, reversed |-> r, period |-> p]

\* NewBypass(reversed, matchers...)
InitBypass ==
    /\ bpReversed \in BOOLEAN
    /\ \E ps \in SeqsUpTo(InitPatterns, MaxInitMatchers) :
         bpMatchers = [i \in 1..Len(ps) |-> NewMatcher(ps[i])]
    /\ bpPeriod = 0
    /\ rlPC = "idle"
    /\ rlFile = <<>>
    /\ rlIdx = 1
    /\ rlErr = FALSE
    /\ rlMatchers = <<>>
    /\ rlPre = BypassState(bpMatchers, bpReversed, bpPeriod)
    /\ cLog = <<>>

\* A Bypass nobody uses, for the specifications of the other subsystems.
ParkedBypass ==
    /\ bpReversed = FALSE
    /\ bpMatchers = <<>>
    /\ bpPeriod = 0
    /\ rlPC = "idle"
    /\ rlFile = <<>>
    /\ rlIdx = 1
    /\ rlErr = FALSE
    /\ rlMatchers = <<>>
    /\ rlPre = BypassState(<<>>, FALSE, 0)
    /\ cLog = <<>>

\* bp.Contains(addr), which runs under bp.mux: it reads bp.matchers and
\* bp.reversed as they are when it holds the lock.
Bypass_Contains(addr) ==
    /\ cLog = <<>>
    /\ cLog' = <<[addr     |-> addr,
                  ret      |-> Contains(bpMatchers, bpReversed, addr),
                  matchers |-> bpMatchers,
                  reversed |-> bpReversed]>>
    /\ UNCHANGED <<bpMatchers, bpReversed, bpPeriod, rlPC, rlFile, rlIdx, rlErr,
                   rlMatchers, rlPre>>
    /\ UNCHANGED nonBypassVars

\* The caller of Contains has its answer and goes on.
Bypass_Contains_Return ==
    /\ cLog # <<>>
    /\ cLog' = <<>>
    /\ UNCHANGED <<bpMatchers, bpReversed, bpPeriod, rlPC, rlFile, rlIdx, rlErr,
                   rlMatchers, rlPre>>
    /\ UNCHANGED nonBypassVars

\* bp.Reload(r) is called: the scanner is set up over r.
Bypass_Reload_Begin(file, err) ==
    /\ rlPC = "idle"
    /\ rlPC' = "scan"
    /\ rlFile' = file
    /\ rlIdx' = 1
    /\ rlErr' = err
    /\ rlMatchers' = <<>>
    /\ rlPre' = BypassState(bpMatchers, bpReversed, bpPeriod)
    /\ cLog' = <<>>
    /\ UNCHANGED <<bpMatchers, bpReversed, bpPeriod>>
    /\ UNCHANGED nonBypassVars

\* One pass of the scanner loop: a "reverse" or "reload" line assigns
\* bp.reversed or bp.period on the spot, without the lock.
Bypass_Reload_Scan ==
    /\ rlPC = "scan"
    /\ rlIdx <= Len(rlFile)
    /\ LET st == Bypass_ReloadLine(BypassState(rlMatchers, bpReversed, bpPeriod),
                                   rlFile[rlIdx])
       IN /\ rlMatchers' = st.matchers
          /\ bpReversed' = st.reversed
          /\ bpPeriod' = st.period
    /\ rlIdx' = rlIdx + 1
    /\ cLog' = <<>>
    /\ UNCHANGED <<bpMatchers, rlPC, rlFile, rlErr, rlPre>>
    /\ UNCHANGED nonBypassVars

\* After the loop: return the scanner's error, or lock, install the new
\* matcher list, unlock.
Bypass_Reload_Finish ==
    /\ rlPC = "scan"
    /\ rlIdx > Len(rlFile)
    /\ bpMatchers' = IF rlErr THEN bpMatchers ELSE rlMatchers
    /\ rlPC' = "idle"
    /\ rlFile' = <<>>
    /\ rlIdx' = 1
    /\ rlErr' = FALSE
    /\ rlMatchers' = <<>>
    /\ rlPre' = BypassState(bpMatchers', bpReversed, bpPeriod)
    /\ cLog' = <<>>
    /\ UNCHANGED <<bpReversed, bpPeriod>>
    /\ UNCHANGED nonBypassVars

NextBypass ==
    \/ \E a \in Addrs : Bypass_Contains(a)
    \/ Bypass_Contains_Return
    \/ \E f \in SeqsUpTo(FileLines, MaxLines), e \in BOOLEAN : Bypass_Reload_Begin(f, e)
    \/ Bypass_Reload_Scan
    \/ Bypass_Reload_Finish

-----------------------------------------------------------------------------
(* resolver: src/unnamed/part_000 *)

\* DefaultResolverTimeout = 30 * time.Second
DefaultResolverTimeout == 30 * Second

\* DefaultResolverTTL = 60 * time.Second
DefaultResolverTTL == 60 * Second

\* strings.ToLower on the letters the model's inputs hold
ToLowerChar(c) ==
    CASE c = "T" -> "t" [] c = "L" -> "l" [] c = "I" -> "i" [] c = "M" -> "m"
      [] c = "E" -> "e" [] c = "O" -> "o" [] c = "U" -> "u" [] c = "R" -> "r"
      [] c = "A" -> "a" [] c = "D" -> "d" [] c = "C" -> "c" [] c = "P" -> "p"
      [] c = "S" -> "s" [] OTHER -> c

ToLower(s) == [i \in 1..Len(s) |-> ToLowerChar(s[i])]

NameServer(addr, protocol, hostname) ==
    [Addr |-> addr, Protocol |-> protocol, Hostname |-> hostname]

\* resolver.init, lines 86-91: the defaults
ResolverInit(timeout, ttl) ==
    [Timeout |-> IF timeout <= 0 THEN DefaultResolverTimeout ELSE timeout,
     TTL     |-> IF ttl = 0 THEN DefaultResolverTTL ELSE ttl]

\* resolver.dial, lines 111-134: the network and the address dialed for ns
DialTarget(ns) ==
    LET addr  == IF SplitHostPort(ns.Addr).port = <<>>
                 THEN JoinHostPort(ns.Addr, <<"5", "3">>) ELSE ns.Addr
        proto == ToLower(ns.Protocol)
    IN [network |-> IF proto \in {<<"t","c","p">>, <<"t","l","s">>} THEN "tcp" ELSE "udp",
        tls     |-> proto = <<"t","l","s">>,
        addr    |-> addr]

\* One pass of the scanner loop of resolver.Reload over the raw line: st
\* holds the local nss and the fields Timeout, TTL and period of the resolver.
Resolver_ReloadLine(st, raw) ==
    LET line == CleanLine(raw)
        ss   == Fields(line)
        key  == IF ss = <<>> THEN <<>> ELSE ToLower(ss[1])
    IN IF line = <<>> \/ ss = <<>> THEN st
       ELSE IF Len(ss) >= 2 /\ key = <<"t","i","m","e","o","u","t">>
       THEN [st EXCEPT !.Timeout = ParseDuration(ss[2]).val]
       ELSE IF Len(ss) >= 2 /\ key = <<"t","t","l">>
       THEN [st EXCEPT !.TTL = ParseDuration(ss[2]).val]
       ELSE IF Len(ss) >= 2 /\ key = <<"r","e","l","o","a","d">>
       THEN [st EXCEPT !.period = ParseDuration(ss[2]).val]
       ELSE [st EXCEPT !.nss = Append(@,
                NameServer(ss[1],
                           IF Len(ss) >= 2 THEN ss[2] ELSE <<>>,
                           IF Len(ss) >= 3 THEN ss[3] ELSE <<>>))]

RECURSIVE Resolver_ScanAll(_, _)
Resolver_ScanAll(st, lines) ==
    IF lines = <<>> THEN st
    ELSE Resolver_ScanAll(Resolver_ReloadLine(st, Head(lines)), Tail(lines))

\* time.Now().Unix()
UnixSeconds(t) == t \div Second

\* the entry of the cache for name, as a sequence of at most one entry
CacheEntry(cache, name) ==
    IF \E e \in cache : e.name = name
    THEN <<CHOOSE e \in cache : e.name = name>>
    ELSE <<>>

\* resolver.loadCache without the test of the age
LoadCacheNoExpiry(cache, ttl, name, t) ==
    IF ttl < 0 THEN <<>>
    ELSE LET es == CacheEntry(cache, name) IN
         IF es = <<>> THEN <<>> ELSE es[1].IPs

\* resolver.loadCache: the IPs, empty for nil
LoadCache(cache, ttl, name, t) ==
    IF ttl < 0 THEN <<>>
    ELSE LET es == CacheEntry(cache, name) IN
         IF es = <<>> THEN <<>>
         ELSE IF t - es[1].ts * Second > ttl THEN <<>>
         ELSE es[1].IPs

\* the test of storeCache, line 186, without the ttl
StoresAnyTTL(ttl, name, ips) == ~(name = <<>> \/ ips = <<>>)

\* the test of storeCache, line 186: whether it stores at all
Stores(ttl, name, ips) == ~(ttl < 0 \/ name = <<>> \/ ips = <<>>)

\* resolver.storeCache: the cache afterwards; the field at (the time of the
\* store, in milliseconds) is history
StoreCache(cache, ttl, name, ips, t) ==
    IF ~Stores(ttl, name, ips) THEN cache
    ELSE {e \in cache : e.name # name}
           \cup {[name |-> name, IPs |-> ips, ts |-> UnixSeconds(t), at |-> t]}

\* -- inputs

NS1 == NameServer(<<"n", "s", "1">>, <<>>, <<>>)

\* names asked for: a domain name and an IP literal
ResolveNames == {HostXAIo, HostIP}

\* what an upstream lookup of a domain name can answer
AnswerIPs == <<<<9, 9, 9, 9>>>>

LineTimeout0 == <<"t", "i", "m", "e", "o", "u", "t", " ", "0">>

LineTTL0 == <<"T", "T", "L", " ", "0">>

LineTTLNeg == <<"t", "t", "l", " ", "-", "1", "s">>

LineNS1 == <<"n", "s", "1">>

LineNS2 == <<"n", "s", "2", ":", "5", "3", "5", "3", " ", "t", "l", "s", " ", "h">>

\* the files reloaded
ResolverFiles ==
    {<<LineNS1, LineNS2>>, <<LineTimeout0, LineTTL0>>, <<LineTTLNeg, LineNS1>>}

NoDial == [servers |-> <<>>, tried |-> <<>>, conn |-> 0, err |-> FALSE]

\* history: a Resolve that returned: the name, how it was answered (literal,
\* hit or lookup), the IPs, whether it stored them, and whether the clock
\* has stood still since
Returned(name, kind, ips, stored) ==
    [name |-> name, kind |-> kind, IPs |-> ips, stored |-> stored, fresh |-> TRUE]

NoCall == [name |-> <<>>, kind |-> "none", IPs |-> <<>>, stored |-> FALSE, fresh |-> FALSE]

\* NewResolver(timeout, ttl, servers...)
InitResolver ==
    /\ \E timeout \in {0, 5 * Second}, ttl \in {0, 0 - Second} :
         /\ rsTimeout = ResolverInit(timeout, ttl).Timeout
         /\ rsTTL = ResolverInit(timeout, ttl).TTL
    /\ rsServers \in {<<>>, <<NS1>>}
    /\ rsCache = {}
    /\ now = 0
    /\ advances = 0
    /\ rvPC = "idle"
    /\ rvName = <<>>
    /\ rvTimeout = 0
    /\ rvLoadTTL = 0
    /\ rvDial = NoDial
    /\ rvLast = NoCall

\* A resolver nobody uses, for the specifications of the other subsystems.
ParkedResolver ==
    /\ rsTimeout = DefaultResolverTimeout
    /\ rsTTL = DefaultResolverTTL
    /\ rsServers = <<>>
    /\ rsCache = {}
    /\ now = 0
    /\ advances = 0
    /\ rvPC = "idle"
    /\ rvName = <<>>
    /\ rvTimeout = 0
    /\ rvLoadTTL = 0
    /\ rvDial = NoDial
    /\ rvLast = NoCall

\* Time passes.
Clock_Advance(d) ==
    /\ advances < MaxAdvances
    /\ rvPC # "panic"
    /\ now' = now + d
    /\ advances' = advances + 1
    /\ rvLast' = [rvLast EXCEPT !.fresh = FALSE]
    /\ UNCHANGED <<rsTimeout, rsTTL, rsServers, rsCache, rvPC, rvName,
                   rvTimeout, rvLoadTTL, rvDial>>
    /\ UNCHANGED nonResolverVars

\* resolver.Reload(rd): the directives assign r.Timeout and r.TTL as read;
\* r.Servers is replaced unless the scanner failed.
Resolver_Reload(file, err) ==
    /\ rvPC # "panic"
    /\ \E st \in {Resolver_ScanAll([nss |-> <<>>, Timeout |-> rsTimeout,
                                    TTL |-> rsTTL, period |-> 0], file)} :
          /\ rsTimeout' = st.Timeout
          /\ rsTTL' = st.TTL
          /\ rsServers' = IF err THEN rsServers ELSE st.nss
    /\ UNCHANGED <<rsCache, now, advances, rvPC, rvName, rvTimeout,
                   rvLoadTTL, rvDial, rvLast>>
    /\ UNCHANGED nonResolverVars

\* Resolve(name) up to the lookup, lines 137-153: an IP literal and a cache
\* hit return at once, anything else goes on to the lookup.
Resolver_Resolve_Begin(name) ==
    /\ rvPC = "idle"
    /\ IF ParseIP(name) # <<>>
       THEN /\ rvLast' = Returned(name, "literal", <<ParseIP(name)>>, FALSE)
            /\ UNCHANGED <<rvPC, rvName, rvTimeout, rvLoadTTL>>
       ELSE \E ips \in {LoadCache(rsCache, rsTTL, name, now)} :
               IF ips # <<>>
               THEN /\ rvLast' = Returned(name, "hit", ips, FALSE)
                    /\ UNCHANGED <<rvPC, rvName, rvTimeout, rvLoadTTL>>
               ELSE /\ rvLast' = NoCall
                    /\ rvPC' = "lookup"
                    /\ rvName' = name
                    /\ rvTimeout' = rsTimeout
                    /\ rvLoadTTL' = rsTTL
    /\ UNCHANGED <<rsTimeout, rsTTL, rsServers, rsCache, now, advances, rvDial>>
    /\ UNCHANGED nonResolverVars

\* LookupIPAddr calls the Dial function of line 95, which ranges over
\* r.Servers as they are now.
Resolver_Dial_Begin ==
    /\ rvPC = "lookup"
    /\ rvPC' = "dial"
    /\ rvDial' = [servers |-> rsServers, tried |-> <<>>, conn |-> 0, err |-> FALSE]
    /\ UNCHANGED <<rsTimeout, rsTTL, rsServers, rsCache, now, advances,
                   rvName, rvTimeout, rvLoadTTL, rvLast>>
    /\ UNCHANGED nonResolverVars

\* The body of the loop for the next server: r.dial(ctx, ns) succeeds, which
\* ends the loop, or fails, which goes on to the next server.
DialLoopBody(d, ok) ==
    LET i == Len(d.tried) + 1 IN
    [d EXCEPT !.tried = Append(@, [idx |-> i, target |-> DialTarget(d.servers[i]),
                                   ok |-> ok]),
              !.conn  = IF ok THEN i ELSE 0,
              !.err   = ~ok]

Resolver_Dial_Try(ok) ==
    /\ rvPC = "dial"
    /\ rvDial.conn = 0
    /\ Len(rvDial.tried) < Len(rvDial.servers)
    /\ rvDial' = DialLoopBody(rvDial, ok)
    /\ UNCHANGED <<rsTimeout, rsTTL, rsServers, rsCache, now, advances, rvPC,
                   rvName, rvTimeout, rvLoadTTL, rvLast>>
    /\ UNCHANGED nonResolverVars

\* The Dial function returns (conn, err), line 103.
Resolver_Dial_Return ==
    /\ rvPC = "dial"
    /\ rvDial.conn # 0 \/ Len(rvDial.tried) = Len(rvDial.servers)
    /\ rvPC' = "dialed"
    /\ UNCHANGED <<rsTimeout, rsTTL, rsServers, rsCache, now, advances, rvDial,
                   rvName, rvTimeout, rvLoadTTL, rvLast>>
    /\ UNCHANGED nonResolverVars

\* Dial returned neither a connection nor an error: the lookup uses the nil
\* connection and the program panics.
Resolver_Lookup_NilConn ==
    /\ rvPC = "dialed"
    /\ rvDial.conn = 0 /\ ~rvDial.err
    /\ rvPC' = "panic"
    /\ UNCHANGED <<rsTimeout, rsTTL, rsServers, rsCache, now, advances, rvDial,
                   rvName, rvTimeout, rvLoadTTL, rvLast>>
    /\ UNCHANGED nonResolverVars

\* The lookup returns, lines 157-165: the addresses answered (none without a
\* connection or without time left) are stored and returned.
Resolver_Resolve_End(ips) ==
    /\ rvPC = "dialed"
    /\ rvDial.conn # 0 \/ rvDial.err
    /\ ips # <<>> => (rvDial.conn # 0 /\ rvTimeout > 0)
    /\ rsCache' = StoreCache(rsCache, rsTTL, rvName, ips, now)
    /\ rvLast' = Returned(rvName, "lookup", ips, Stores(rsTTL, rvName, ips))
    /\ rvPC' = "idle"
    /\ rvName' = <<>>
    /\ rvTimeout' = 0
    /\ rvLoadTTL' = 0
    /\ rvDial' = NoDial
    /\ UNCHANGED <<rsTimeout, rsTTL, rsServers, now, advances>>
    /\ UNCHANGED nonResolverVars

\* the steps by which the clock advances
ClockSteps == {Second \div 2, DefaultResolverTTL}

NextResolver ==
    \/ \E d \in ClockSteps : Clock_Advance(d)
    \/ \E f \in ResolverFiles, e \in BOOLEAN : Resolver_Reload(f, e)
    \/ \E n \in ResolveNames : Resolver_Resolve_Begin(n)
    \/ Resolver_Dial_Begin
    \/ \E ok \in BOOLEAN : Resolver_Dial_Try(ok)
    \/ Resolver_Dial_Return
    \/ Resolver_Lookup_NilConn
    \/ \E ips \in {<<>>, AnswerIPs} : Resolver_Resolve_End(ips)

-----------------------------------------------------------------------------
(* RoundStrategy: src/unnamed/part_001 *)

\* the goroutines there are
Goroutines == {1, 2}

Node(id) == [ID |-> id]

\* the pool of n nodes
Pool(n) == [i \in 1..n |-> Node(i)]

\* the index of line 84 taken one further
RoundIndexNext(old, n) == (old + 1) % n

\* int(old % uint64(len(nodes))), line 84
RoundIndex(old, n) == old % n

\* the calls of Apply begun: those returned and those in progress
CallsBegun == Len(rrPicks) + Cardinality({g \in Goroutines : rrPC[g] # "idle"})

\* a fresh RoundStrategy, called by the goroutines of active
InitRound(active) ==
    /\ rrCount = 0
    /\ rrActive = active
    /\ rrPC = [g \in Goroutines |-> "idle"]
    /\ rrNodes = [g \in Goroutines |-> <<>>]
    /\ rrOld = [g \in Goroutines |-> 0]
    /\ rrPicks = <<>>

\* A strategy nobody uses, for the specifications of the other subsystems.
ParkedRound == InitRound({})

\* Apply(nodes) up to the load of the counter, lines 79-82: an empty pool
\* returns Node{} at once.
RoundStrategy_Apply_Load(g, nodes) ==
    /\ g \in rrActive
    /\ rrPC[g] = "idle"
    /\ CallsBegun < MaxCalls
    /\ IF Len(nodes) = 0
       THEN /\ rrPicks' = Append(rrPicks, [n |-> 0, node |-> Node(0)])
            /\ UNCHANGED <<rrPC, rrNodes, rrOld>>
       ELSE /\ rrPC' = [rrPC EXCEPT ![g] = "loaded"]
            /\ rrNodes' = [rrNodes EXCEPT ![g] = nodes]
            /\ rrOld' = [rrOld EXCEPT ![g] = rrCount]
            /\ UNCHANGED rrPicks
    /\ UNCHANGED <<rrCount, rrActive>>
    /\ UNCHANGED nonRoundVars

\* The rest of Apply, lines 83-84: add one to the counter and return the
\* node at old modulo the size of the pool.  (The counter is a uint64; no
\* run of the model comes near its wrap.)
RoundStrategy_Apply_Add(g) ==
    /\ rrPC[g] = "loaded"
    /\ rrCount' = rrCount + 1
    /\ rrPicks' = Append(rrPicks,
            [n |-> Len(rrNodes[g]),
             node |-> rrNodes[g][RoundIndex(rrOld[g], Len(rrNodes[g])) + 1]])
    /\ rrPC' = [rrPC EXCEPT ![g] = "idle"]
    /\ rrNodes' = [rrNodes EXCEPT ![g] = <<>>]
    /\ rrOld' = [rrOld EXCEPT ![g] = 0]
    /\ UNCHANGED rrActive
    /\ UNCHANGED nonRoundVars

NextRound ==
    \/ \E g \in Goroutines, n \in 0..MaxNodes : RoundStrategy_Apply_Load(g, Pool(n))
    \/ \E g \in Goroutines : RoundStrategy_Apply_Add(g)

-----------------------------------------------------------------------------
(* defaultSelector, the strategies and FailFilter: src/unnamed/part_001 *)

\* a node as the selector sees it: failTime is in Unix seconds
MarkedNode(id, failCount, failTime) ==
    [ID |-> id, failCount |-> failCount, failTime |-> failTime]

\* Node.Clone(): a detached copy with the same fields
Clone(node) == [ID |-> node.ID, failCount |-> node.failCount, failTime |-> node.failTime]

FailFilter(maxFails, failTimeout) ==
    [MaxFails |-> maxFails, FailTimeout |-> failTimeout]

\* the test of lines 156-157 with the age left out
FailFilterKeepsNoTimeout(f, node, t) == node.failCount < f.MaxFails

\* the test of lines 156-157: the node stays
FailFilterKeeps(f, node, t) ==
    \/ node.failCount < f.MaxFails
    \/ t - node.failTime * Second >= f.FailTimeout

\* the loop of lines 155-160 over the nodes from i on
RECURSIVE FailFilterLoop(_, _, _, _)
FailFilterLoop(f, nodes, i, t) ==
    IF i > Len(nodes) THEN <<>>
    ELSE (IF FailFilterKeeps(f, nodes[i], t) THEN <<Clone(nodes[i])>> ELSE <<>>)
           \o FailFilterLoop(f, nodes, i + 1, t)

\* FailFilter.Filter(nodes) at the time t.  (MaxFails is taken in the range
\* in which uint32(f.MaxFails) is f.MaxFails.)
FailFilter_Filter(f, nodes, t) ==
    IF Len(nodes) <= 1 \/ f.MaxFails <= 0 THEN nodes
    ELSE FailFilterLoop(f, nodes, 1, t)

\* a strategy object: its kind, the counter of a RoundStrategy, and the
\* number its rand source gives next for a RandomStrategy
Strategy(kind, count, rnd) == [kind |-> kind, count |-> count, rnd |-> rnd]

\* Strategy.Apply(nodes): the node returned
Strategy_Apply(st, nodes) ==
    IF Len(nodes) = 0 THEN MarkedNode(0, 0, 0)
    ELSE CASE st.kind = "round"  -> nodes[RoundIndex(st.count, Len(nodes)) + 1]
           [] st.kind = "random" -> nodes[(st.rnd % Len(nodes)) + 1]
           [] st.kind = "fifo"   -> nodes[1]

\* WithFilter(f) and WithStrategy(s) as values
WithFilter(f) == [opt |-> "filter", filter |-> f, strategy |-> Strategy("none", 0, 0)]

WithStrategy(st) == [opt |-> "strategy", filter |-> FailFilter(0, 0), strategy |-> st]

\* the loop of lines 28-30: the options applied in order to sopts
RECURSIVE ApplyOptions(_, _)
ApplyOptions(sopts, opts) ==
    IF opts = <<>> THEN sopts
    ELSE ApplyOptions(
           IF Head(opts).opt = "filter"
           THEN [sopts EXCEPT !.Filters = Append(@, Head(opts).filter)]
           ELSE [sopts EXCEPT !.Strategy = Head(opts).strategy],
           Tail(opts))

\* the filters applied last to first
RECURSIVE ApplyFiltersReversed(_, _, _)
ApplyFiltersReversed(filters, nodes, t) ==
    IF filters = <<>> THEN <<nodes>>
    ELSE <<nodes>> \o ApplyFiltersReversed(Take(filters, Len(filters) - 1),
               FailFilter_Filter(filters[Len(filters)], nodes, t), t)

\* the loop of lines 32-34: the pools, from the one given to the one left
\* after the last filter
RECURSIVE ApplyFilters(_, _, _)
ApplyFilters(filters, nodes, t) ==
    IF filters = <<>> THEN <<nodes>>
    ELSE <<nodes>> \o ApplyFilters(Tail(filters),
               FailFilter_Filter(Head(filters), nodes, t), t)

ErrNoneAvailable == "none available"

\* defaultSelector.Select(nodes, opts...) at the time t
Select(nodes, opts, t) ==
    LET sopts  == ApplyOptions([Filters |-> <<>>, Strategy |-> Strategy("round", 0, 0)], opts)
        stages == ApplyFilters(sopts.Filters, nodes, t)
        left   == stages[Len(stages)]
    IN [nodes |-> nodes, opts |-> opts, sopts |-> sopts, stages |-> stages,
        node |-> IF Len(left) = 0 THEN MarkedNode(0, 0, 0)
                 ELSE Strategy_Apply(sopts.Strategy, left),
        err  |-> IF Len(left) = 0 THEN ErrNoneAvailable ELSE Nil,
        at   |-> t]

\* -- inputs

\* the pools of n nodes with the IDs 1..n, each with any marks
MarkedPools(n) ==
    {[i \in 1..n |-> MarkedNode(i, m[i][1], m[i][2])] :
        m \in [1..n -> (0..MaxFailCount) \X {0, 1}]}

SelectPools == UNION {MarkedPools(n) : n \in 0..MaxPool}

SelectFilters == {FailFilter(0, Second), FailFilter(1, Second), FailFilter(2, Second)}

SelectStrategies ==
    {Strategy("round", 1, 0), Strategy("fifo", 0, 0), Strategy("random", 0, 1)}

SelectOpts ==
    {[i \in 1..Len(fs) |-> WithFilter(fs[i])] \o st :
        fs \in SeqsUpTo(SelectFilters, 2),
        st \in {<<>>} \cup {<<WithStrategy(x)>> : x \in SelectStrategies}}

\* no call in progress
NoSelect == [Select(<<>>, <<>>, 0) EXCEPT !.at = 0 - 1]

InitSelect ==
    /\ slNow = 0
    /\ slCall = NoSelect

\* A selector nobody uses, for the specifications of the other subsystems.
ParkedSelect == InitSelect

\* Time passes.
Select_Clock_Advance ==
    /\ slCall = NoSelect
    /\ slNow < MaxAdvances * (Second \div 2)
    /\ slNow' = slNow + Second \div 2
    /\ UNCHANGED slCall
    /\ UNCHANGED nonSelectVars

defaultSelector_Select(nodes, opts) ==
    /\ slCall = NoSelect
    /\ slCall' = Select(nodes, opts, slNow)
    /\ UNCHANGED slNow
    /\ UNCHANGED nonSelectVars

\* The caller has taken the result.
defaultSelector_Select_Return ==
    /\ slCall # NoSelect
    /\ slCall' = NoSelect
    /\ UNCHANGED slNow
    /\ UNCHANGED nonSelectVars

NextSelect ==
    \/ Select_Clock_Advance
    \/ defaultSelector_Select_Return
    \/ \E nodes \in SelectPools, opts \in SelectOpts : defaultSelector_Select(nodes, opts)

-----------------------------------------------------------------------------
(* The obfuscation codec: sni.go.  Strings and byte slices are sequences  *)
(* of byte values.                                                        *)

\* A 32-bit word is the tuple of its four bytes, the highest first.

Bit(x, i) == (x \div Pow2(i)) % 2

\* the exclusive or of two bytes
ByteXor(x, y) ==
    ((Bit(x, 0) + Bit(y, 0)) % 2) + 2 * ((Bit(x, 1) + Bit(y, 1)) % 2)
      + 4 * ((Bit(x, 2) + Bit(y, 2)) % 2) + 8 * ((Bit(x, 3) + Bit(y, 3)) % 2)
      + 16 * ((Bit(x, 4) + Bit(y, 4)) % 2) + 32 * ((Bit(x, 5) + Bit(y, 5)) % 2)
      + 64 * ((Bit(x, 6) + Bit(y, 6)) % 2) + 128 * ((Bit(x, 7) + Bit(y, 7)) % 2)

WordXor(a, b) ==
    <<ByteXor(a[1], b[1]), ByteXor(a[2], b[2]), ByteXor(a[3], b[3]), ByteXor(a[4], b[4])>>

WordShiftRight(a) ==
    <<a[1] \div 2, (a[1] % 2) * 128 + a[2] \div 2,
      (a[2] % 2) * 128 + a[3] \div 2, (a[3] % 2) * 128 + a[4] \div 2>>

\* the polynomial of crc32.IEEE, 0xedb88320
CrcPoly == <<237, 184, 131, 32>>

AllOnes == <<255, 255, 255, 255>>

\* n steps of the bitwise form of the checksum
RECURSIVE CrcBits(_, _)
CrcBits(w, n) ==
    IF n = 0 THEN w
    ELSE IF w[4] % 2 = 1
    THEN CrcBits(WordXor(WordShiftRight(w), CrcPoly), n - 1)
    ELSE CrcBits(WordShiftRight(w), n - 1)

\* the register after the bytes
RECURSIVE CrcUpdate(_, _)
CrcUpdate(w, bytes) ==
    IF bytes = <<>> THEN w
    ELSE CrcBits(WordXor(CrcUpdate(w, Take(bytes, Len(bytes) - 1)),
                         <<0, 0, 0, bytes[Len(bytes)]>>), 8)

\* crc32.ChecksumIEEE(bytes), as its four bytes in big-endian order
ChecksumIEEE(bytes) == WordXor(CrcUpdate(AllOnes, bytes), AllOnes)

\* the alphabet of base64.URLEncoding: the character of the value v
B64Char(v) ==
    IF v < 26 THEN 65 + v
    ELSE IF v < 52 THEN 97 + (v - 26)
    ELSE IF v < 62 THEN 48 + (v - 52)
    ELSE IF v = 62 THEN 45 ELSE 95

\* the value of the character c, or -1
B64Val(c) ==
    IF c >= 65 /\ c <= 90 THEN c - 65
    ELSE IF c >= 97 /\ c <= 122 THEN c - 97 + 26
    ELSE IF c >= 48 /\ c <= 57 THEN c - 48 + 52
    ELSE IF c = 45 THEN 62
    ELSE IF c = 95 THEN 63 ELSE 0 - 1

\* base64.RawURLEncoding.EncodeToString
RECURSIVE B64Encode(_)
B64Encode(b) ==
    IF Len(b) = 0 THEN <<>>
    ELSE IF Len(b) = 1
    THEN <<B64Char(b[1] \div 4), B64Char((b[1] % 4) * 16)>>
    ELSE IF Len(b) = 2
    THEN <<B64Char(b[1] \div 4), B64Char((b[1] % 4) * 16 + b[2] \div 16),
           B64Char((b[2] % 16) * 4)>>
    ELSE <<B64Char(b[1] \div 4), B64Char((b[1] % 4) * 16 + b[2] \div 16),
           B64Char((b[2] % 16) * 4 + b[3] \div 64), B64Char(b[3] % 64)>>
           \o B64Encode(Drop(b, 3))

\* the quanta of the values v, without the check of the last bits
RECURSIVE B64Quanta(_)
B64Quanta(v) ==
    IF Len(v) = 0 THEN <<>>
    ELSE IF Len(v) = 2
    THEN <<v[1] * 4 + v[2] \div 16>>
    ELSE IF Len(v) = 3
    THEN <<v[1] * 4 + v[2] \div 16, (v[2] % 16) * 16 + v[3] \div 4>>
    ELSE <<v[1] * 4 + v[2] \div 16, (v[2] % 16) * 16 + v[3] \div 4,
           (v[3] % 4) * 64 + v[4]>> \o B64Quanta(Drop(v, 4))

\* base64.RawURLEncoding.DecodeString: carriage returns and line feeds are
\* skipped; any other character outside the alphabet, and a lone last
\* character, are errors
B64Decode(s) ==
    LET NotNewline(c) == c # 10 /\ c # 13
        t == SelectSeq(s, NotNewline)
        v == [i \in 1..Len(t) |-> B64Val(t[i])]
    IN IF (\E i \in 1..Len(v) : v[i] < 0) \/ Len(v) % 4 = 1
       THEN [bytes |-> <<>>, ok |-> FALSE]
       ELSE [bytes |-> B64Quanta(v), ok |-> TRUE]

\* encodeServerName with the name itself in place of its base64
encodeServerNameBare(name) == B64Encode(ChecksumIEEE(name) \o name)

\* encodeServerName(name)
encodeServerName(name) == B64Encode(ChecksumIEEE(name) \o B64Encode(name))

\* decodeServerName without the comparison of the checksums
decodeServerNameNoCrc(s) ==
    LET b == B64Decode(s) IN
    IF ~b.ok THEN [name |-> <<>>, ok |-> FALSE, err |-> "base64"]
    ELSE IF Len(b.bytes) < 4 THEN [name |-> <<>>, ok |-> FALSE, err |-> "invalid name"]
    ELSE LET v == B64Decode(Drop(b.bytes, 4)) IN
         IF ~v.ok THEN [name |-> <<>>, ok |-> FALSE, err |-> "base64"]
         ELSE [name |-> v.bytes, ok |-> TRUE, err |-> Nil]

\* decodeServerName(s): the name and whether err is nil
decodeServerName(s) ==
    LET b == B64Decode(s) IN
    IF ~b.ok THEN [name |-> <<>>, ok |-> FALSE, err |-> "base64"]
    ELSE IF Len(b.bytes) < 4 THEN [name |-> <<>>, ok |-> FALSE, err |-> "invalid name"]
    ELSE LET v == B64Decode(Drop(b.bytes, 4)) IN
         IF ~v.ok THEN [name |-> <<>>, ok |-> FALSE, err |-> "base64"]
         ELSE IF ChecksumIEEE(v.bytes) # Take(b.bytes, 4)
         THEN [name |-> <<>>, ok |-> FALSE, err |-> "invalid name"]
         ELSE [name |-> v.bytes, ok |-> TRUE, err |-> Nil]

\* -- inputs

\* the bytes names are made of: "a", "." and "~"
NameBytes == {97, 46, 126}

CodecNames == SeqsUpTo(NameBytes, MaxNameLen)

\* the characters put in place of one of an encoded name: "A", "!", a line feed
SpoilChars == {65, 33, 10}

\* what decodeServerName is given: encoded names, whole, cut short, and
\* with one character replaced
CodecInputs ==
    LET E == {encodeServerName(n) : n \in CodecNames} IN
    UNION {{Take(e, k) : k \in 0..Len(e)}
             \cup {[e EXCEPT ![i] = c] : i \in 1..Len(e), c \in SpoilChars} : e \in E}

NoCodecCall == [op |-> "none", in |-> <<>>, name |-> <<>>, text |-> <<>>, ok |-> TRUE]

InitCodec == cdCall = NoCodecCall

\* A codec nobody uses, for the specifications of the other subsystems.
ParkedCodec == InitCodec

\* encodeServerName(name) followed by decodeServerName of what it returned
Codec_EncodeDecode(name) ==
    /\ cdCall = NoCodecCall
    /\ \E e \in {encodeServerName(name)} : \E d \in {decodeServerName(e)} :
          cdCall' = [op |-> "encode", in |-> name, text |-> e,
                     name |-> d.name, ok |-> d.ok]
    /\ UNCHANGED nonCodecVars

\* decodeServerName(s)
Codec_Decode(x) ==
    /\ cdCall = NoCodecCall
    /\ \E d \in {decodeServerName(x)} :
          cdCall' = [op |-> "decode", in |-> x, text |-> x,
                     name |-> d.name, ok |-> d.ok]
    /\ UNCHANGED nonCodecVars

Codec_Return ==
    /\ cdCall # NoCodecCall
    /\ cdCall' = NoCodecCall
    /\ UNCHANGED nonCodecVars

NextCodec ==
    \/ \E n \in CodecNames : Codec_EncodeDecode(n)
    \/ \E x \in CodecInputs : Codec_Decode(x)
    \/ Codec_Return

-----------------------------------------------------------------------------
(* ClientHello records and readClientHelloRecord: sni.go.  A TLS record is *)
(* kept as the list of the extensions of its ClientHello; names and       *)
(* payloads are sequences of byte values.                                 *)

\* dissector.Handshake, the content type of a handshake record
Handshake == 22

\* dissector.ExtServerName
ExtServerName == 0

\* the private extension that carries the encoded name, 0xFFFE
ExtObfuscated == 65534

\* a server_name extension
ServerNameExtension(name) == [type |-> ExtServerName, name |-> name, data |-> <<>>]

\* dissector.NewExtension(t, data)
NewExtension(t, data) == [type |-> t, name |-> <<>>, data |-> data]

\* ext.Bytes() of an extension made by NewExtension: type and length in two
\* bytes each, then the data
ExtensionBytes(ext) ==
    <<ext.type \div 256, ext.type % 256, Len(ext.data) \div 256, Len(ext.data) % 256>>
      \o ext.data

\* a record with a ClientHello of these extensions
HelloRecord(exts) == [kind |-> "hello", exts |-> exts, bytes |-> <<>>]

\* a handshake record that does not hold a whole ClientHello
BadHelloRecord == [kind |-> "badhello", exts |-> <<>>, bytes |-> <<>>]

\* a payload that is not a TLS record
BytesPayload(bytes) == [kind |-> "bytes", exts |-> <<>>, bytes |-> bytes]

\* p[0]
FirstByte(p) == IF p.kind = "bytes" THEN p.bytes[1] ELSE Handshake

\* The loop of lines 228-235 from extension i on: st holds host and the
\* extensions kept.
RECURSIVE StripObfuscated(_, _, _)
StripObfuscated(exts, i, st) ==
    IF i > Len(exts) THEN st
    ELSE IF exts[i].type = ExtObfuscated
    THEN LET d == decodeServerName(Drop(ExtensionBytes(exts[i]), 4)) IN
         StripObfuscated(exts, i + 1,
            IF d.ok THEN [st EXCEPT !.host = d.name]
            ELSE [host |-> d.name, kept |-> Append(st.kept, exts[i])])
    ELSE StripObfuscated(exts, i + 1, [st EXCEPT !.kept = Append(@, exts[i])])

\* the index of the first server_name extension, or 0
RECURSIVE FirstServerName(_, _)
FirstServerName(exts, i) ==
    IF i > Len(exts) THEN 0
    ELSE IF exts[i].type = ExtServerName THEN i
    ELSE FirstServerName(exts, i + 1)

\* the loop of lines 239-254 when nothing is written back to the extension
RewriteServerNameKeep(exts, host, isClient) ==
    LET i == FirstServerName(exts, 1) IN
    IF i = 0 THEN [host |-> host, exts |-> exts]
    ELSE [host |-> IF host = <<>> THEN exts[i].name ELSE host, exts |-> exts]

\* The loop of lines 239-254: the first server_name extension gives the
\* host if there is none yet, the client side appends the encoded name, and
\* the name of the extension becomes the host.
RewriteServerName(exts, host, isClient) ==
    LET i == FirstServerName(exts, 1) IN
    IF i = 0 THEN [host |-> host, exts |-> exts]
    ELSE LET h  == IF host = <<>> THEN exts[i].name ELSE host
             e1 == IF isClient
                   THEN Append(exts, NewExtension(ExtObfuscated,
                                                  encodeServerName(exts[i].name)))
                   ELSE exts
             e2 == IF h # <<>> THEN [e1 EXCEPT ![i].name = h] ELSE e1
         IN [host |-> h, exts |-> e2]

\* readClientHelloRecord(r, host, isClient) with the record p next on r:
\* the record written back, the host, and whether err is nil
readClientHelloRecord(p, host, isClient) ==
    IF p.kind # "hello" THEN [b |-> p, host |-> <<>>, ok |-> FALSE]
    ELSE LET st == IF isClient THEN [host |-> host, kept |-> p.exts]
                   ELSE StripObfuscated(p.exts, 1, [host |-> host, kept |-> <<>>])
             rw == RewriteServerName(st.kept, st.host, isClient)
         IN [b |-> HelloRecord(rw.exts), host |-> rw.host, ok |-> TRUE]

\* -- bytes of text

CR == 13

LF == 10

CRLF == <<CR, LF>>

TextHost == <<72, 111, 115, 116>>

TextHostColon == <<72, 111, 115, 116, 58>>

TextHostColonSpace == <<72, 111, 115, 116, 58, 32>>

TextGostTarget == <<71, 111, 115, 116, 45, 84, 97, 114, 103, 101, 116, 58, 32>>

\* strings.TrimPrefix and strings.TrimSuffix
TrimPrefix(s, pre) == IF HasPrefix(s, pre) THEN Drop(s, Len(pre)) ELSE s

TrimSuffix(s, suf) ==
    IF Len(s) >= Len(suf) /\ Drop(s, Len(s) - Len(suf)) = suf
    THEN Take(s, Len(s) - Len(suf)) ELSE s

\* strings.TrimSpace on bytes
ByteSpace == {9, 10, 11, 12, 13, 32}

RECURSIVE TrimSpaceBytes(_)
TrimSpaceBytes(s) ==
    IF s = <<>> THEN s
    ELSE IF Head(s) \in ByteSpace THEN TrimSpaceBytes(Tail(s))
    ELSE IF s[Len(s)] \in ByteSpace THEN TrimSpaceBytes(Take(s, Len(s) - 1))
    ELSE s

\* how many bytes br.ReadString('\n') returns: up to the first line feed
\* and with it, or all there is
RECURSIVE LineLen(_, _)
LineLen(s, i) ==
    IF i > Len(s) THEN Len(s)
    ELSE IF s[i] = LF THEN i ELSE LineLen(s, i + 1)

\* The loop of lines 177-210 over the bytes left: what is written to buf.
RECURSIVE ObfuscateHTTP(_, _)
ObfuscateHTTP(rest, host) ==
    IF rest = <<>> THEN <<>>
    ELSE LET n == LineLen(rest, 1)
             line == Take(rest, n)
         IN IF line[n] # LF THEN line
            ELSE IF line = CRLF THEN rest
            ELSE IF HasPrefix(line, TextHost)
            THEN TextHostColonSpace \o host \o CRLF
                   \o TextGostTarget
                   \o encodeServerName(TrimSpaceBytes(
                          TrimSuffix(TrimPrefix(line, TextHostColon), CRLF)))
                   \o CRLF \o Drop(rest, n)
            ELSE line \o ObfuscateHTTP(Drop(rest, n), host)

-----------------------------------------------------------------------------
(* sniClientConn: sni.go *)

\* obfuscate(p) after the lock, rewriting whatever the flag says
sniClientConn_obfuscateAlways(p, host, obfuscated) ==
    IF FirstByte(p) = Handshake
    THEN LET r == readClientHelloRecord(p, host, TRUE) IN
         IF ~r.ok THEN [b |-> p, ok |-> FALSE, obfuscated |-> obfuscated]
         ELSE [b |-> r.b, ok |-> TRUE, obfuscated |-> TRUE]
    ELSE [b |-> BytesPayload(ObfuscateHTTP(p.bytes, host)), ok |-> TRUE,
          obfuscated |-> TRUE]

\* obfuscate(p) after the lock, lines 159-212: what it returns, whether err
\* is nil, and c.obfuscated afterwards
sniClientConn_obfuscate(p, host, obfuscated) ==
    IF obfuscated THEN [b |-> p, ok |-> TRUE, obfuscated |-> TRUE]
    ELSE IF FirstByte(p) = Handshake
    THEN LET r == readClientHelloRecord(p, host, TRUE) IN
         IF ~r.ok THEN [b |-> p, ok |-> FALSE, obfuscated |-> FALSE]
         ELSE [b |-> r.b, ok |-> TRUE, obfuscated |-> TRUE]
    ELSE [b |-> BytesPayload(ObfuscateHTTP(p.bytes, host)), ok |-> TRUE,
          obfuscated |-> TRUE]

\* -- inputs

NameReal == <<120, 46, 97, 46, 105, 111>>

NameDecoy == <<100, 46, 105, 111>>

\* an extension of no interest here (supported_groups)
OtherExtension == NewExtension(10, <<0>>)

\* the payloads written: a ClientHello, a broken handshake record, an HTTP
\* request, and application data
ClientPayloads ==
    {HelloRecord(<<OtherExtension, ServerNameExtension(NameReal)>>),
     BadHelloRecord,
     BytesPayload(<<71, 13, 10, 72, 111, 115, 116, 58, 32, 97, 13, 10, 13, 10>>),
     BytesPayload(<<23, 3>>)}

\* Connect(conn, addr) of an sniConnector with the host given
InitSniClient(host) ==
    /\ scHost = host
    /\ scObfuscated = FALSE
    /\ scMutex = 0
    /\ scPC = [g \in Goroutines |-> "idle"]
    /\ scP = [g \in Goroutines |-> BadHelloRecord]
    /\ scB = [g \in Goroutines |-> BadHelloRecord]
    /\ scWire = <<>>
    /\ scLog = <<>>
    /\ scWrites = 0

\* A connection nobody uses, for the specifications of the other subsystems.
ParkedSniClient == InitSniClient(<<>>)

\* Write(p) is called.
sniClientConn_Write_Begin(g, p) ==
    /\ scPC[g] = "idle"
    /\ scWrites < MaxWrites
    /\ scWrites' = scWrites + 1
    /\ scP' = [scP EXCEPT ![g] = p]
    /\ scPC' = [scPC EXCEPT ![g] = "obfuscate"]
    /\ UNCHANGED <<scHost, scObfuscated, scMutex, scB, scWire, scLog>>
    /\ UNCHANGED nonSniClientVars

\* obfuscate(p), lines 153-156: without a host p is returned as it is;
\* otherwise the mutex is taken once it is free.
sniClientConn_obfuscate_Lock(g) ==
    /\ scPC[g] = "obfuscate"
    /\ IF scHost = <<>>
       THEN /\ scB' = [scB EXCEPT ![g] = scP[g]]
            /\ scPC' = [scPC EXCEPT ![g] = "write"]
            /\ UNCHANGED scMutex
       ELSE /\ scMutex = 0
            /\ scMutex' = g
            /\ scPC' = [scPC EXCEPT ![g] = "locked"]
            /\ UNCHANGED scB
    /\ UNCHANGED <<scHost, scObfuscated, scP, scWire, scLog, scWrites>>
    /\ UNCHANGED nonSniClientVars

\* obfuscate(p) under the mutex, lines 159-212, and the deferred Unlock; on
\* an error Write returns at line 144.
sniClientConn_obfuscate_Unlock(g) ==
    /\ scPC[g] = "locked"
    /\ \E r \in {sniClientConn_obfuscate(scP[g], scHost, scObfuscated)} :
          /\ scObfuscated' = r.obfuscated
          /\ scB' = [scB EXCEPT ![g] = r.b]
          /\ scPC' = [scPC EXCEPT ![g] = IF r.ok THEN "write" ELSE "idle"]
          /\ scLog' = Append(scLog, [g |-> g, p |-> scP[g], b |-> r.b, ok |-> r.ok,
                                     was |-> scObfuscated])
    /\ scMutex' = 0
    /\ UNCHANGED <<scHost, scP, scWire, scWrites>>
    /\ UNCHANGED nonSniClientVars

\* c.Conn.Write(b), line 146, succeeds or fails.
sniClientConn_Write_Conn(g, ok) ==
    /\ scPC[g] = "write"
    /\ scWire' = IF ok THEN Append(scWire, [g |-> g, b |-> scB[g]]) ELSE scWire
    /\ scPC' = [scPC EXCEPT ![g] = "idle"]
    /\ UNCHANGED <<scHost, scObfuscated, scMutex, scP, scB, scLog, scWrites>>
    /\ UNCHANGED nonSniClientVars

NextSniClient ==
    \/ \E g \in Goroutines, p \in ClientPayloads : sniClientConn_Write_Begin(g, p)
    \/ \E g \in Goroutines : sniClientConn_obfuscate_Lock(g)
    \/ \E g \in Goroutines : sniClientConn_obfuscate_Unlock(g)
    \/ \E g \in Goroutines, ok \in BOOLEAN : sniClientConn_Write_Conn(g, ok)

-----------------------------------------------------------------------------
(* Hosts: hosts.go *)

\* Host{IP, Hostname, Aliases}
Host(ip, hostname, aliases) == [IP |-> ip, Hostname |-> hostname, Aliases |-> aliases]

\* the loop over the aliases, lines 52-57: one of them equals host
AliasMatches(h, host) == \E k \in 1..Len(h.Aliases) : h.Aliases[k] = host

\* The loop of Lookup, lines 47-58, from entry i on, with ip as it stands.  A
\* hostname that matches leaves the loop (line 50); an alias that matches
\* leaves the loop over the aliases (line 55), and the loop over the entries
\* goes on.
RECURSIVE Hosts_LookupLoop(_, _, _, _)
Hosts_LookupLoop(hosts, i, host, ip) ==
    IF i > Len(hosts) THEN ip
    ELSE IF hosts[i].Hostname = host THEN hosts[i].IP
    ELSE Hosts_LookupLoop(hosts, i + 1, host,
                          IF AliasMatches(hosts[i], host) THEN hosts[i].IP ELSE ip)

\* Lookup(host), lines 43-63: Nil is the nil net.IP
Hosts_LookupResult(hosts, host) ==
    IF hosts = Nil THEN Nil ELSE Hosts_LookupLoop(hosts, 1, host, Nil)

\* -- inputs

HostNames == {"a", "A", "b"}

HostIPs == {"10.0.0.1", "10.0.0.2"}

HostAliases == {<<>>, <<"a">>, <<"b", "a">>}

HostEntries ==
    {Host(ip, hostname, aliases) :
        ip \in HostIPs, hostname \in {"a", "b"}, aliases \in HostAliases}

NoLookup == [host |-> Nil, ip |-> Nil, hosts |-> Nil]

\* NewHosts() with no entry, or a nil *Hosts
InitHosts ==
    /\ hsHosts \in {Nil, <<>>}
    /\ hsCall = NoLookup

\* A table nobody uses, for the specifications of the other subsystems.
ParkedHosts ==
    /\ hsHosts = <<>>
    /\ hsCall = NoLookup

\* AddHost(host), lines 38-40
Hosts_AddHost(host) ==
    /\ hsHosts # Nil
    /\ hsCall = NoLookup
    /\ Len(hsHosts) < MaxHosts
    /\ hsHosts' = Append(hsHosts, host)
    /\ UNCHANGED hsCall
    /\ UNCHANGED nonHostsVars

\* Lookup(host), lines 43-63
Hosts_Lookup(host) ==
    /\ hsCall = NoLookup
    /\ hsCall' = [host |-> host, ip |-> Hosts_LookupResult(hsHosts, host),
                  hosts |-> hsHosts]
    /\ UNCHANGED hsHosts
    /\ UNCHANGED nonHostsVars

\* The caller has the answer.
Hosts_Lookup_Return ==
    /\ hsCall # NoLookup
    /\ hsCall' = NoLookup
    /\ UNCHANGED hsHosts
    /\ UNCHANGED nonHostsVars

NextHosts ==
    \/ \E host \in HostEntries : Hosts_AddHost(host)
    \/ \E host \in HostNames : Hosts_Lookup(host)
    \/ Hosts_Lookup_Return

-----------------------------------------------------------------------------
(* sniHandler: sni.go *)

\* dissector.RecordHeaderLen
RecordHeaderLen == 5

\* the letters 'a' to 'z'
AsciiLower ==
    <<"a", "b", "c", "d", "e", "f", "g", "h", "i", "j", "k", "l", "m",
      "n", "o", "p", "q", "r", "s", "t", "u", "v", "w", "x", "y", "z">>

\* the character of a byte of a host name
Chr(b) ==
    IF b >= 97 /\ b <= 122 THEN AsciiLower[b - 96]
    ELSE IF b = 46 THEN "."
    ELSE IF b = 58 THEN ":"
    ELSE "?"

\* the host, a sequence of bytes, as the string the policy checks are given
HostString(host) == [i \in 1..Len(host) |-> Chr(host[i])]

Port443 == <<"4", "4", "3">>

\* Can("tcp", addr, whitelist, blacklist): denied holds the addresses the
\* two permission lists refuse between them
Can(action, addr, denied) == addr \notin denied

\* h.options.Bypass.Contains(addr) when the check is left out
BypassContainsNever(bp, addr) == FALSE

\* h.options.Bypass.Contains(addr); a nil Bypass contains nothing
BypassContains(bp, addr) ==
    IF bp.nil THEN FALSE ELSE Contains(bp.matchers, bp.reversed, addr).result

\* a nil *Bypass
NilBypass == [nil |-> TRUE, matchers |-> <<>>, reversed |-> FALSE]

\* NewBypass(reversed, matchers...)
NewBypass(reversed, matchers) == [nil |-> FALSE, matchers |-> matchers, reversed |-> reversed]

\* br.Peek(RecordHeaderLen) fails on a stream shorter than a record header
PeekFails(p) == p.kind = "bytes" /\ Len(p.bytes) < RecordHeaderLen

\* -- inputs

\* the extension a client connection adds for the real name
ExtValid == NewExtension(ExtObfuscated, encodeServerName(NameReal))

\* 0xFFFE extensions that do not decode: a checksum that is not the name's,
\* fewer than four bytes, and a character outside the alphabet
ExtBadCrc == NewExtension(ExtObfuscated, B64Encode(<<0, 0, 0, 0>> \o B64Encode(NameReal)))

ExtShort == NewExtension(ExtObfuscated, B64Encode(<<1, 2>>))

ExtMalformed == NewExtension(ExtObfuscated, <<33>>)

ExtInvalid == {ExtBadCrc, ExtShort, ExtMalformed}

\* the sequences that hold every element of S once
RECURSIVE Perms(_)
Perms(S) ==
    IF S = {} THEN {<<>>}
    ELSE UNION {{<<x>> \o q : q \in Perms(S \ {x})} : x \in S}

\* ClientHellos as a peer may build them: any of the decoy's server_name,
\* the valid extension and one invalid extension, in any order
ForgedExtensions ==
    UNION {UNION {Perms(S) : S \in SUBSET {ServerNameExtension(NameDecoy), ExtValid, bad}}
           : bad \in ExtInvalid}

\* A ClientHello for real as an SNI client connection with the decoy host
\* puts it on the wire.
FromClient(real, decoy) ==
    [p |-> readClientHelloRecord(HelloRecord(<<OtherExtension, ServerNameExtension(real)>>),
                                 decoy, TRUE).b,
     real |-> real, decoy |-> decoy]

\* a payload of any other origin
FromPeer(p) == [p |-> p, real |-> <<>>, decoy |-> <<>>]

ServerInputs ==
    {FromClient(NameReal, NameDecoy), FromClient(NameDecoy, NameReal)}
    \cup {FromPeer(HelloRecord(exts)) : exts \in ForgedExtensions}
    \cup {FromPeer(p) : p \in ClientPayloads}

\* what the permission lists refuse, and the Bypass: none, the names under
\* .a.io, and every name but those
ServerOptions ==
    {[denied |-> d, bypass |-> b] :
        d \in {{}, {JoinHostPort(HostString(NameReal), Port443)}},
        b \in {NilBypass,
               NewBypass(FALSE, <<DomainMatcher(PatDotAIo)>>),
               NewBypass(TRUE, <<DomainMatcher(PatDotAIo)>>)}}

\* what arrives upstream from the relay
Relayed == [kind |-> "relayed", exts |-> <<>>, bytes |-> <<>>]

\* the address the policy checks and the dial are given, line 91
shAddr == JoinHostPort(HostString(shHost), Port443)

\* Handle(conn) is about to run on a connection of a handler with options.
InitSniServerWith(opts, input) ==
    /\ shOpts = opts
    /\ shInput = input
    /\ shPC = "peek"
    /\ shB = BadHelloRecord
    /\ shHost = <<>>
    /\ shConnClosed = FALSE
    /\ shDialed = FALSE
    /\ shCCClosed = FALSE
    /\ shUpstream = <<>>
    /\ shEvents = <<>>

InitSniServer ==
    \E opts \in ServerOptions, input \in ServerInputs : InitSniServerWith(opts, input)

\* A handler nobody connects to, for the specifications of the other
\* subsystems.
ParkedSniServer ==
    InitSniServerWith([denied |-> {}, bypass |-> NilBypass], FromPeer(BadHelloRecord))

\* Lines 58-89: the peek, and for a handshake record readClientHelloRecord.
\* A failed peek closes conn (line 63); from line 67 on conn.Close() is
\* deferred.
sniHandler_Handle_Peek ==
    /\ shPC = "peek"
    /\ IF PeekFails(shInput.p)
       THEN /\ shPC' = "done"
            /\ shConnClosed' = TRUE
            /\ UNCHANGED <<shB, shHost>>
       ELSE IF FirstByte(shInput.p) # Handshake
       THEN /\ shPC' = "http"
            /\ UNCHANGED <<shB, shHost, shConnClosed>>
       ELSE \E r \in {readClientHelloRecord(shInput.p, <<>>, FALSE)} :
               IF r.ok
               THEN /\ shPC' = "can"
                    /\ shB' = r.b
                    /\ shHost' = r.host
                    /\ UNCHANGED shConnClosed
               ELSE /\ shPC' = "done"
                    /\ shConnClosed' = TRUE
                    /\ UNCHANGED <<shB, shHost>>
    /\ UNCHANGED <<shOpts, shInput, shDialed, shCCClosed, shUpstream, shEvents>>
    /\ UNCHANGED nonSniServerVars

\* Lines 69-83: the request is read and, when that succeeds, handed to an
\* httpHandler; then Handle returns.
sniHandler_Handle_HTTP(ok) ==
    /\ shPC = "http"
    /\ shEvents' = IF ok THEN Append(shEvents, "http") ELSE shEvents
    /\ shPC' = "done"
    /\ shConnClosed' = TRUE
    /\ UNCHANGED <<shOpts, shInput, shB, shHost, shDialed, shCCClosed, shUpstream>>
    /\ UNCHANGED nonSniServerVars

\* Lines 93-96: the check against the permission lists
sniHandler_Handle_Can ==
    /\ shPC = "can"
    /\ shEvents' = Append(shEvents, "can")
    /\ IF Can("tcp", shAddr, shOpts.denied)
       THEN shPC' = "bypass" /\ UNCHANGED shConnClosed
       ELSE shPC' = "done" /\ shConnClosed' = TRUE
    /\ UNCHANGED <<shOpts, shInput, shB, shHost, shDialed, shCCClosed, shUpstream>>
    /\ UNCHANGED nonSniServerVars

\* Lines 97-100: the check against the Bypass
sniHandler_Handle_Bypass ==
    /\ shPC = "bypass"
    /\ shEvents' = Append(shEvents, "bypass")
    /\ IF BypassContains(shOpts.bypass, shAddr)
       THEN shPC' = "done" /\ shConnClosed' = TRUE
       ELSE shPC' = "dial" /\ UNCHANGED shConnClosed
    /\ UNCHANGED <<shOpts, shInput, shB, shHost, shDialed, shCCClosed, shUpstream>>
    /\ UNCHANGED nonSniServerVars

\* Lines 102-112 were the return of line 110 to leave conn open.
sniHandler_Handle_DialLeak(ok) ==
    /\ shPC = "dial"
    /\ shEvents' = Append(shEvents, "dial")
    /\ IF ok
       THEN shPC' = "write" /\ shDialed' = TRUE /\ UNCHANGED shConnClosed
       ELSE shPC' = "done" /\ UNCHANGED <<shConnClosed, shDialed>>
    /\ UNCHANGED <<shOpts, shInput, shB, shHost, shCCClosed, shUpstream>>
    /\ UNCHANGED nonSniServerVars

\* Lines 102-112: Chain.Dial(addr) gives a connection or an error; with a
\* connection, cc.Close() is deferred.
sniHandler_Handle_Dial(ok) ==
    /\ shPC = "dial"
    /\ shEvents' = Append(shEvents, "dial")
    /\ IF ok
       THEN shPC' = "write" /\ shDialed' = TRUE /\ UNCHANGED shConnClosed
       ELSE shPC' = "done" /\ shConnClosed' = TRUE /\ UNCHANGED shDialed
    /\ UNCHANGED <<shOpts, shInput, shB, shHost, shCCClosed, shUpstream>>
    /\ UNCHANGED nonSniServerVars

\* Lines 114-116: cc.Write(b); an error is logged and Handle goes on.
sniHandler_Handle_Write(ok) ==
    /\ shPC = "write"
    /\ shEvents' = Append(shEvents, IF ok THEN "write" ELSE "write failed")
    /\ shUpstream' = IF ok THEN Append(shUpstream, shB) ELSE shUpstream
    /\ shPC' = "transport"
    /\ UNCHANGED <<shOpts, shInput, shB, shHost, shConnClosed, shDialed, shCCClosed>>
    /\ UNCHANGED nonSniServerVars

\* Lines 118-120: transport(conn, cc) passes n chunks upstream and ends;
\* Handle returns and the deferred calls close cc and conn.
sniHandler_Handle_Transport(n) ==
    /\ shPC = "transport"
    /\ shEvents' = Append(shEvents, "relay")
    /\ shUpstream' = shUpstream \o [i \in 1..n |-> Relayed]
    /\ shPC' = "done"
    /\ shCCClosed' = TRUE
    /\ shConnClosed' = TRUE
    /\ UNCHANGED <<shOpts, shInput, shB, shHost, shDialed>>
    /\ UNCHANGED nonSniServerVars

NextSniServer ==
    \/ sniHandler_Handle_Peek
    \/ \E ok \in BOOLEAN : sniHandler_Handle_HTTP(ok)
    \/ sniHandler_Handle_Can
    \/ sniHandler_Handle_Bypass
    \/ \E ok \in BOOLEAN : sniHandler_Handle_Dial(ok)
    \/ \E ok \in BOOLEAN : sniHandler_Handle_Write(ok)
    \/ \E n \in 0..MaxRelay : sniHandler_Handle_Transport(n)

-----------------------------------------------------------------------------
(* autoHandler and bufferdConn: handler.go *)

\* gosocks4.Ver4
Ver4 == 4
\* gosocks5.Ver5
Ver5 == 5
\* 'G', the first byte of an HTTP GET
ByteG == 71

\* first bytes a client may send
Bytes == {Ver4, Ver5, ByteG}

InitAuto ==
    /\ options \in [Users : 0..MaxUsers]
    /\ stream \in SeqsUpTo(Bytes, MaxStream)
    /\ netPos = 0
    /\ brBuf = <<>>
    /\ connClosed = FALSE
    /\ hpc = "accept"
    /\ invoked = <<>>
    /\ got = <<>>
    /\ reads = 0

\* The handler the switch of Handle picks for first byte b: Nil when the
\* connection is refused (SOCKS4 with credentials configured).
RouteNoUsersCheck(b, opts) ==
    IF b = Ver4 THEN "socks4"
    ELSE IF b = Ver5 THEN "socks5"
    ELSE "http"

Route(b, opts) ==
    IF b = Ver4 THEN (IF opts.Users > 0 THEN Nil ELSE "socks4")
    ELSE IF b = Ver5 THEN "socks5"
    ELSE "http"

\* br.Peek(1) fails: the client closed before sending a byte.
autoHandler_Handle_PeekErr ==
    /\ hpc = "accept"
    /\ stream = <<>>
    /\ connClosed' = TRUE
    /\ hpc' = "done"
    /\ UNCHANGED <<options, stream, netPos, brBuf, invoked, got, reads>>
    /\ UNCHANGED nonAutoVars

\* br.Peek(1) succeeds: one conn.Read of k >= 1 bytes fills the buffer, the
\* first byte is looked at and left in the buffer, and the switch dispatches.
autoHandler_Handle_Dispatch ==
    /\ hpc = "accept"
    /\ stream # <<>>
    /\ \E k \in 1..Min(Len(stream), BufSize) :
         /\ netPos' = k
         /\ brBuf' = SubSeq(stream, 1, k)
         /\ LET handler == Route(stream[1], options) IN
              IF handler = Nil
              THEN /\ connClosed' = TRUE
                   /\ hpc' = "done"
                   /\ invoked' = invoked
              ELSE /\ connClosed' = connClosed
                   /\ hpc' = handler
                   /\ invoked' = Append(invoked, handler)
    /\ UNCHANGED <<options, stream, got, reads>>
    /\ UNCHANGED nonAutoVars

Handling == hpc \in {"socks4", "socks5", "http"}

\* A Read that bypasses the bufio.Reader and reads the net.Conn itself.
ConnReadDirect(n) ==
    /\ Handling
    /\ ~connClosed
    /\ netPos < Len(stream)
    /\ \E k \in 1..Min(n, Len(stream) - netPos) :
         /\ got' = got \o SubSeq(stream, netPos + 1, netPos + k)
         /\ netPos' = netPos + k
    /\ reads' = reads + 1
    /\ UNCHANGED <<options, stream, brBuf, connClosed, hpc, invoked>>
    /\ UNCHANGED nonAutoVars

\* bufferdConn.Read(p) with len(p) = n > 0, which is br.Read(p): buffered
\* bytes first; on an empty buffer a large read goes straight to the conn and
\* a small one refills the buffer with one conn.Read and copies from it.
bufferdConn_Read(n) ==
    /\ Handling
    /\ ~connClosed
    /\ reads' = reads + 1
    /\ IF brBuf # <<>>
       THEN /\ got' = got \o Take(brBuf, n)
            /\ brBuf' = Drop(brBuf, Min(n, Len(brBuf)))
            /\ netPos' = netPos
       ELSE /\ netPos < Len(stream)
            /\ IF n >= BufSize
               THEN \E k \in 1..Min(n, Len(stream) - netPos) :
                      /\ got' = got \o SubSeq(stream, netPos + 1, netPos + k)
                      /\ netPos' = netPos + k
                      /\ brBuf' = brBuf
               ELSE \E k \in 1..Min(BufSize, Len(stream) - netPos) :
                      LET chunk == SubSeq(stream, netPos + 1, netPos + k) IN
                      /\ got' = got \o Take(chunk, n)
                      /\ brBuf' = Drop(chunk, Min(n, k))
                      /\ netPos' = netPos + k
    /\ UNCHANGED <<options, stream, connClosed, hpc, invoked>>
    /\ UNCHANGED nonAutoVars

\* The downstream handler returns; it owns the connection and closes it.
Downstream_Close ==
    /\ Handling
    /\ connClosed' = TRUE
    /\ hpc' = "done"
    /\ UNCHANGED <<options, stream, netPos, brBuf, invoked, got, reads>>
    /\ UNCHANGED nonAutoVars

NextAuto ==
    \/ autoHandler_Handle_PeekErr
    \/ autoHandler_Handle_Dispatch
    \/ \E n \in 1..MaxRead : bufferdConn_Read(n)
    \/ Downstream_Close

\* A handler with no connection, for the specifications of the other subsystems.
ParkedAuto ==
    /\ options = [Users |-> 0]
    /\ stream = <<>>
    /\ netPos = 0
    /\ brBuf = <<>>
    /\ connClosed = FALSE
    /\ hpc = "idle"
    /\ invoked = <<>>
    /\ got = <<>>
    /\ reads = 0

-----------------------------------------------------------------------------
(* Init on a handler in use: handler.go.  The downstream handler is built *)
(* with the pointer h.options, so it reads the struct Init writes.         *)

\* UsersHandlerOption(users...), lines 55-59, applied to the options
UsersHandlerOption(users, opts) == [opts EXCEPT !.Users = users]

\* Handle(conn) is about to run.
InitHandlerInit ==
    /\ hiStart = options
    /\ hiSeen = {}

\* For the specifications of the other subsystems.
ParkedHandlerInit ==
    /\ hiStart = [Users |-> 0]
    /\ hiSeen = {}

\* h.Init(UsersHandlerOption(users...)), lines 135-142, from another
\* goroutine: h.options is not nil, so the mutator is applied to the struct
\* in place.
autoHandler_Init(users) ==
    /\ options' = UsersHandlerOption(users, options)
    /\ UNCHANGED <<stream, netPos, brBuf, connClosed, hpc, invoked, got, reads>>
    /\ UNCHANGED handlerInitVars
    /\ UNCHANGED nonAutoInitVars

\* The downstream handler reads its options while it has the connection.
Downstream_ReadOptions ==
    /\ Handling
    /\ ~connClosed
    /\ hiSeen' = hiSeen \cup {options}
    /\ UNCHANGED hiStart
    /\ UNCHANGED autoVars
    /\ UNCHANGED nonAutoInitVars

NextAutoInit ==
    \/ NextAuto
    \/ \E users \in 0..MaxUsers : autoHandler_Init(users)
    \/ Downstream_ReadOptions

-----------------------------------------------------------------------------
(* The methods of a Bypass and bp.mux: bypass.go.  Every read and write of *)
(* bp.matchers and bp.reversed is a step of its own.                        *)

\* the files given to Reload
AccessFiles == SeqsUpTo({LineReverseTrue, PatDotAIo}, MaxLines)

\* the scanner loop of Reload is about to assign bp.reversed (line 234)
WritesReversed(raw) ==
    /\ HasPrefix(CleanLine(raw), <<"r","e","v","e","r","s","e"," ">>)
    /\ Len(Fields(CleanLine(raw))) = 2

\* What the next step of goroutine g reads or writes of the two fields.
Accesses(g) ==
    CASE baPC[g] = "contains_locked" ->
             {[field |-> "matchers", write |-> FALSE], [field |-> "reversed", write |-> FALSE]}
      [] baPC[g] \in {"add_read", "matchers", "string_matchers"} ->
             {[field |-> "matchers", write |-> FALSE]}
      [] baPC[g] \in {"reversed", "string_reversed"} ->
             {[field |-> "reversed", write |-> FALSE]}
      [] baPC[g] \in {"add_write", "reload_locked"} ->
             {[field |-> "matchers", write |-> TRUE]}
      [] baPC[g] = "reload_scan" /\ baFile[g] # <<>> /\ WritesReversed(Head(baFile[g])) ->
             {[field |-> "reversed", write |-> TRUE]}
      [] OTHER -> {}

InitBypassAccess ==
    /\ baMux = 0
    /\ baPC = [g \in Goroutines |-> "idle"]
    /\ baFile = [g \in Goroutines |-> <<>>]
    /\ baLocal = [g \in Goroutines |-> <<>>]
    /\ baCalls = 0

\* For the specifications of the other subsystems.
ParkedBypassAccess == InitBypassAccess

\* the fields of the Bypass these steps leave alone
baUnusedVars == <<bpPeriod, rlPC, rlFile, rlIdx, rlErr, rlMatchers, rlPre, cLog>>

\* A goroutine calls Contains, AddMatchers, Matchers, Reversed or String.
Bypass_Call(g, pc) ==
    /\ baPC[g] = "idle"
    /\ baCalls < MaxAccessCalls
    /\ baCalls' = baCalls + 1
    /\ baPC' = [baPC EXCEPT ![g] = pc]
    /\ baLocal' = [baLocal EXCEPT ![g] = <<>>]
    /\ UNCHANGED <<baMux, baFile, bpMatchers, bpReversed>>
    /\ UNCHANGED baUnusedVars
    /\ UNCHANGED nonBypassBothVars

\* Contains, line 163: bp.mux.Lock()
Bypass_Contains_Lock(g) ==
    /\ baPC[g] = "contains"
    /\ baMux = 0
    /\ baMux' = g
    /\ baPC' = [baPC EXCEPT ![g] = "contains_locked"]
    /\ UNCHANGED <<baFile, baLocal, baCalls, bpMatchers, bpReversed>>
    /\ UNCHANGED baUnusedVars
    /\ UNCHANGED nonBypassBothVars

\* Contains, lines 164-178: the loop over bp.matchers, the return
\* expression with bp.reversed, and the deferred Unlock
Bypass_Contains_Unlock(g) ==
    /\ baPC[g] = "contains_locked"
    /\ baMux' = 0
    /\ baPC' = [baPC EXCEPT ![g] = "idle"]
    /\ UNCHANGED <<baFile, baLocal, baCalls, bpMatchers, bpReversed>>
    /\ UNCHANGED baUnusedVars
    /\ UNCHANGED nonBypassBothVars

\* AddMatchers, line 182: the argument of append is read
Bypass_AddMatchers_Read(g) ==
    /\ baPC[g] = "add_read"
    /\ baLocal' = [baLocal EXCEPT ![g] = bpMatchers]
    /\ baPC' = [baPC EXCEPT ![g] = "add_write"]
    /\ UNCHANGED <<baMux, baFile, baCalls, bpMatchers, bpReversed>>
    /\ UNCHANGED baUnusedVars
    /\ UNCHANGED nonBypassBothVars

\* AddMatchers, line 182: the result of append is assigned
Bypass_AddMatchers_Write(g, matcher) ==
    /\ baPC[g] = "add_write"
    /\ bpMatchers' = Append(baLocal[g], matcher)
    /\ baLocal' = [baLocal EXCEPT ![g] = <<>>]
    /\ baPC' = [baPC EXCEPT ![g] = "idle"]
    /\ UNCHANGED <<baMux, baFile, baCalls, bpReversed>>
    /\ UNCHANGED baUnusedVars
    /\ UNCHANGED nonBypassBothVars

\* Matchers, line 187, Reversed, line 192, and the two calls String makes,
\* lines 261 and 262: one read each
Bypass_Read(g) ==
    /\ baPC[g] \in {"matchers", "reversed", "string_reversed", "string_matchers"}
    /\ baPC' = [baPC EXCEPT ![g] = IF baPC[g] = "string_reversed"
                                   THEN "string_matchers" ELSE "idle"]
    /\ UNCHANGED <<baMux, baFile, baLocal, baCalls, bpMatchers, bpReversed>>
    /\ UNCHANGED baUnusedVars
    /\ UNCHANGED nonBypassBothVars

\* Reload(r) is called with a file of these lines.
Bypass_Reload_Call(g, file) ==
    /\ baPC[g] = "idle"
    /\ baCalls < MaxAccessCalls
    /\ baCalls' = baCalls + 1
    /\ baPC' = [baPC EXCEPT ![g] = "reload_scan"]
    /\ baFile' = [baFile EXCEPT ![g] = file]
    /\ baLocal' = [baLocal EXCEPT ![g] = <<>>]
    /\ UNCHANGED <<baMux, bpMatchers, bpReversed>>
    /\ UNCHANGED baUnusedVars
    /\ UNCHANGED nonBypassBothVars

\* Reload, lines 200-240: one pass of the scanner loop, which assigns
\* bp.reversed and bp.period where it stands.
Bypass_Reload_Line(g) ==
    /\ baPC[g] = "reload_scan"
    /\ baFile[g] # <<>>
    /\ \E st \in {Bypass_ReloadLine(BypassState(baLocal[g], bpReversed, bpPeriod),
                                    Head(baFile[g]))} :
          /\ baLocal' = [baLocal EXCEPT ![g] = st.matchers]
          /\ bpReversed' = st.reversed
          /\ bpPeriod' = st.period
    /\ baFile' = [baFile EXCEPT ![g] = Tail(baFile[g])]
    /\ UNCHANGED <<baMux, baPC, baCalls, bpMatchers>>
    /\ UNCHANGED <<rlPC, rlFile, rlIdx, rlErr, rlMatchers, rlPre, cLog>>
    /\ UNCHANGED nonBypassBothVars

\* Reload, lines 242-244: the scanner's error ends the call.
Bypass_Reload_Err(g) ==
    /\ baPC[g] = "reload_scan"
    /\ baFile[g] = <<>>
    /\ baPC' = [baPC EXCEPT ![g] = "idle"]
    /\ baLocal' = [baLocal EXCEPT ![g] = <<>>]
    /\ UNCHANGED <<baMux, baFile, baCalls, bpMatchers, bpReversed>>
    /\ UNCHANGED baUnusedVars
    /\ UNCHANGED nonBypassBothVars

\* Reload, line 246: bp.mux.Lock()
Bypass_Reload_Lock(g) ==
    /\ baPC[g] = "reload_scan"
    /\ baFile[g] = <<>>
    /\ baMux = 0
    /\ baMux' = g
    /\ baPC' = [baPC EXCEPT ![g] = "reload_locked"]
    /\ UNCHANGED <<baFile, baLocal, baCalls, bpMatchers, bpReversed>>
    /\ UNCHANGED baUnusedVars
    /\ UNCHANGED nonBypassBothVars

\* Reload, lines 247-251: the new list is installed; the deferred Unlock
Bypass_Reload_Unlock(g) ==
    /\ baPC[g] = "reload_locked"
    /\ bpMatchers' = baLocal[g]
    /\ baMux' = 0
    /\ baPC' = [baPC EXCEPT ![g] = "idle"]
    /\ baLocal' = [baLocal EXCEPT ![g] = <<>>]
    /\ UNCHANGED <<baFile, baCalls, bpReversed>>
    /\ UNCHANGED baUnusedVars
    /\ UNCHANGED nonBypassBothVars

NextBypassAccess ==
    \/ \E g \in Goroutines,
          pc \in {"contains", "add_read", "matchers", "reversed", "string_reversed"} :
          Bypass_Call(g, pc)
    \/ \E g \in Goroutines : Bypass_Contains_Lock(g)
    \/ \E g \in Goroutines : Bypass_Contains_Unlock(g)
    \/ \E g \in Goroutines : Bypass_AddMatchers_Read(g)
    \/ \E g \in Goroutines : Bypass_AddMatchers_Write(g, NewMatcher(HostIP))
    \/ \E g \in Goroutines : Bypass_Read(g)
    \/ \E g \in Goroutines, file \in AccessFiles : Bypass_Reload_Call(g, file)
    \/ \E g \in Goroutines : Bypass_Reload_Line(g)
    \/ \E g \in Goroutines : Bypass_Reload_Err(g)
    \/ \E g \in Goroutines : Bypass_Reload_Lock(g)
    \/ \E g \in Goroutines : Bypass_Reload_Unlock(g)

-----------------------------------------------------------------------------
(* A connection at either handler *)

NextHandlers ==
    \/ NextAuto
    \/ NextSniServer

-----------------------------------------------------------------------------
(* Specifications: one per subsystem, the others parked *)

InitSpecAuto ==
    /\ InitAuto
    /\ ParkedBypass /\ ParkedResolver /\ ParkedRound /\ ParkedSelect
    /\ ParkedCodec /\ ParkedSniClient /\ ParkedHosts /\ ParkedSniServer
    /\ ParkedHandlerInit /\ ParkedBypassAccess

SpecAuto == InitSpecAuto /\ [][NextAuto]_vars

InitSpecBypass ==
    /\ InitBypass
    /\ ParkedAuto /\ ParkedResolver /\ ParkedRound /\ ParkedSelect
    /\ ParkedCodec /\ ParkedSniClient /\ ParkedHosts /\ ParkedSniServer
    /\ ParkedHandlerInit /\ ParkedBypassAccess

SpecBypass == InitSpecBypass /\ [][NextBypass]_vars

InitSpecResolver ==
    /\ InitResolver
    /\ ParkedAuto /\ ParkedBypass /\ ParkedRound /\ ParkedSelect
    /\ ParkedCodec /\ ParkedSniClient /\ ParkedHosts /\ ParkedSniServer
    /\ ParkedHandlerInit /\ ParkedBypassAccess

SpecResolver == InitSpecResolver /\ [][NextResolver]_vars

\* one goroutine calls Apply, one call after the other
InitSpecRound ==
    /\ InitRound({1})
    /\ ParkedAuto /\ ParkedBypass /\ ParkedResolver /\ ParkedSelect
    /\ ParkedCodec /\ ParkedSniClient /\ ParkedHosts /\ ParkedSniServer
    /\ ParkedHandlerInit /\ ParkedBypassAccess

SpecRound == InitSpecRound /\ [][NextRound]_vars

\* two goroutines call Apply on the same strategy at once
InitSpecRoundConcurrent ==
    /\ InitRound(Goroutines)
    /\ ParkedAuto /\ ParkedBypass /\ ParkedResolver /\ ParkedSelect
    /\ ParkedCodec /\ ParkedSniClient /\ ParkedHosts /\ ParkedSniServer
    /\ ParkedHandlerInit /\ ParkedBypassAccess

SpecRoundConcurrent == InitSpecRoundConcurrent /\ [][NextRound]_vars

InitSpecSelect ==
    /\ InitSelect
    /\ ParkedAuto /\ ParkedBypass /\ ParkedResolver /\ ParkedRound
    /\ ParkedCodec /\ ParkedSniClient /\ ParkedHosts /\ ParkedSniServer
    /\ ParkedHandlerInit /\ ParkedBypassAccess

SpecSelect == InitSpecSelect /\ [][NextSelect]_vars

InitSpecCodec ==
    /\ InitCodec
    /\ ParkedAuto /\ ParkedBypass /\ ParkedResolver /\ ParkedRound
    /\ ParkedSelect /\ ParkedSniClient /\ ParkedHosts /\ ParkedSniServer
    /\ ParkedHandlerInit /\ ParkedBypassAccess

SpecCodec == InitSpecCodec /\ [][NextCodec]_vars

\* a connection with a decoy host or with none
InitSpecSniClient ==
    /\ \E host \in {<<>>, NameDecoy} : InitSniClient(host)
    /\ ParkedAuto /\ ParkedBypass /\ ParkedResolver /\ ParkedRound
    /\ ParkedSelect /\ ParkedCodec /\ ParkedHosts /\ ParkedSniServer
    /\ ParkedHandlerInit /\ ParkedBypassAccess

SpecSniClient == InitSpecSniClient /\ [][NextSniClient]_vars

InitSpecHosts ==
    /\ InitHosts
    /\ ParkedAuto /\ ParkedBypass /\ ParkedResolver /\ ParkedRound
    /\ ParkedSelect /\ ParkedCodec /\ ParkedSniClient /\ ParkedSniServer
    /\ ParkedHandlerInit /\ ParkedBypassAccess

SpecHosts == InitSpecHosts /\ [][NextHosts]_vars

InitSpecSniServer ==
    /\ InitSniServer
    /\ ParkedAuto /\ ParkedBypass /\ ParkedResolver /\ ParkedRound
    /\ ParkedSelect /\ ParkedCodec /\ ParkedSniClient /\ ParkedHosts
    /\ ParkedHandlerInit /\ ParkedBypassAccess

SpecSniServer == InitSpecSniServer /\ [][NextSniServer]_vars

\* Init is called again on the handler while it handles a connection
InitSpecAutoInit ==
    /\ InitAuto /\ InitHandlerInit
    /\ ParkedBypass /\ ParkedResolver /\ ParkedRound /\ ParkedSelect
    /\ ParkedCodec /\ ParkedSniClient /\ ParkedHosts /\ ParkedSniServer
    /\ ParkedBypassAccess

SpecAutoInit == InitSpecAutoInit /\ [][NextAutoInit]_vars

\* two goroutines call the methods of one Bypass
InitSpecBypassAccess ==
    /\ InitBypass /\ InitBypassAccess
    /\ ParkedAuto /\ ParkedResolver /\ ParkedRound /\ ParkedSelect
    /\ ParkedCodec /\ ParkedSniClient /\ ParkedHosts /\ ParkedSniServer
    /\ ParkedHandlerInit

SpecBypassAccess == InitSpecBypassAccess /\ [][NextBypassAccess]_vars

\* a connection arrives at an autoHandler or at an sniHandler
InitSpecHandlers ==
    /\ \/ InitAuto /\ ParkedSniServer
       \/ ParkedAuto /\ InitSniServer
    /\ ParkedBypass /\ ParkedResolver /\ ParkedRound /\ ParkedSelect
    /\ ParkedCodec /\ ParkedSniClient /\ ParkedHosts /\ ParkedHandlerInit
    /\ ParkedBypassAccess

SpecHandlers == InitSpecHandlers /\ [][NextHandlers]_vars

-----------------------------------------------------------------------------
(* Claims about autoHandler and bufferdConn *)

\* What the dispatch table prescribes for the connection: the one handler to
\* invoke, or none.
C1_Prescribed ==
    IF stream = <<>> THEN <<>>
    ELSE IF stream[1] = 4
         THEN (IF options.Users = 0 THEN <<"socks4">> ELSE <<>>)
    ELSE IF stream[1] = 5 THEN <<"socks5">>
    ELSE <<"http">>

\* C1: Handle routes by the first byte: 0x04 without users to SOCKS4, 0x04
\* with users closes at once and no handler is ever invoked, 0x05 to SOCKS5,
\* any other byte to HTTP; at most one handler is invoked, exactly once.
C1_RoutesByFirstByte ==
    /\ Len(invoked) <= 1
    /\ hpc = "accept" => invoked = <<>>
    /\ hpc # "accept" =>
         /\ invoked = C1_Prescribed
         /\ Handling => invoked = <<hpc>>
         /\ (stream # <<>> /\ stream[1] = 4 /\ options.Users > 0) =>
               (connClosed /\ hpc = "done" /\ got = <<>>)

C1_Witness_Socks4Refused ==
    /\ stream # <<>> /\ stream[1] = 4 /\ options.Users > 0
    /\ hpc = "done" /\ connClosed /\ invoked = <<>>

\* C2: the peeked byte is not consumed: what the downstream handler has read,
\* followed by what the bufio.Reader still holds, is the client's stream from
\* byte 0 up to the last byte taken off the conn, whatever the chunking.
C2_StreamFromByteZero ==
    hpc # "accept" =>
        /\ netPos <= Len(stream)
        /\ got \o brBuf = SubSeq(stream, 1, netPos)
        /\ (netPos = Len(stream) /\ brBuf = <<>>) => got = stream

C2_Witness_WholeStreamRead ==
    /\ Handling
    /\ Len(stream) = MaxStream
    /\ got = stream
    /\ reads >= 2

-----------------------------------------------------------------------------
(* Claims about Bypass *)

RECURSIVE C3_ScanAll(_, _)
C3_ScanAll(st, lines) ==
    IF lines = <<>> THEN st
    ELSE C3_ScanAll(Bypass_ReloadLine(st, Head(lines)), Tail(lines))

\* The Bypass as the Reload in progress leaves it when it returns.
C3_PostReload ==
    LET st == C3_ScanAll(BypassState(<<>>, rlPre.reversed, rlPre.period), rlFile)
    IN IF rlErr THEN [st EXCEPT !.matchers = rlPre.matchers] ELSE st

\* C3: Reload is atomic with respect to Contains: a Contains that runs while
\* a Reload is in progress returns what the complete pre-reload pair
\* (matchers, reversed) gives for its address, or what the complete
\* post-reload pair gives.
C3_ReloadAtomic ==
    (rlPC = "scan" /\ cLog # <<>>) =>
        LET c    == cLog[1]
            post == C3_PostReload
        IN c.ret.result \in
             {Contains(rlPre.matchers, rlPre.reversed, c.addr).result,
              Contains(post.matchers, post.reversed, c.addr).result}

C4_AnyMatch(ms, v) ==
    \E i \in 1..Len(ms) : ms[i] # NilMatcher /\ Match(ms[i], v)

\* the non-nil matchers among the first n of ms
C4_NonNil(ms, n) == Cardinality({i \in 1..n : ms[i] # NilMatcher})

\* the Match calls a left-to-right walk that stops at the first match makes
C4_CallsUntilFirstMatch(ms, v) ==
    IF C4_AnyMatch(ms, v)
    THEN C4_NonNil(ms, CHOOSE i \in 1..Len(ms) :
                          /\ ms[i] # NilMatcher /\ Match(ms[i], v)
                          /\ \A j \in 1..(i - 1) :
                               ms[j] = NilMatcher \/ ~Match(ms[j], v))
    ELSE C4_NonNil(ms, Len(ms))

\* C4: Contains answers (some matcher matches the address) XOR reversed, the
\* matchers tried left to right up to the first match, and the Bypass of the
\* opposite polarity over the same matcher list answers the opposite.
C4_PolarityXor ==
    cLog # <<>> =>
        LET c == cLog[1]
            v == c.ret.matchedAs
        IN /\ c.ret.result = (C4_AnyMatch(c.matchers, v) # c.reversed)
           /\ c.ret.tried = C4_CallsUntilFirstMatch(c.matchers, v)
           /\ Contains(c.matchers, ~c.reversed, c.addr).result = ~c.ret.result

C4_Witness_ReversedMatched ==
    /\ cLog # <<>>
    /\ cLog[1].addr = JoinHostPort(HostXAIo, Port80)
    /\ cLog[1].reversed
    /\ Len(cLog[1].matchers) = 2
    /\ cLog[1].ret.tried = 1
    /\ cLog[1].ret.result = FALSE

\* C5, as claimed: for every host h and every numeric port string p,
\* Contains(h:p) returns what Contains(h) returns.
C5_StripsEveryNumericPort ==
    cLog # <<>> =>
        LET c  == cLog[1]
            hp == SplitHostPort(c.addr)
        IN (hp.ok /\ hp.host # <<>> /\ hp.port # <<>> /\ AllDigits(hp.port)) =>
             c.ret.result = Contains(c.matchers, c.reversed, hp.host).result

\* C5, amended: Contains(h:p) returns what Contains(h) returns whenever the
\* port reads as a number above 0; an address whose port is not numeric, or
\* is 0, is matched as given.
C5_StripsPositivePort ==
    cLog # <<>> =>
        LET c  == cLog[1]
            hp == SplitHostPort(c.addr)
        IN IF hp.ok /\ hp.host # <<>> /\ hp.port # <<>> /\ AllDigits(hp.port)
              /\ DecVal(hp.port) > 0
           THEN /\ c.ret.matchedAs = hp.host
                /\ c.ret.result = Contains(c.matchers, c.reversed, hp.host).result
           ELSE c.ret.matchedAs = c.addr

C5_Witness_PortStripped ==
    /\ cLog # <<>>
    /\ cLog[1].addr = JoinHostPort(HostIP, Port80)
    /\ cLog[1].ret.matchedAs = HostIP
    /\ cLog[1].ret.result
    /\ ~cLog[1].reversed

-----------------------------------------------------------------------------
(* Resolver claims *)

\* this step begins a Resolve of the name n
BeginsResolve(n) ==
    /\ rvPC = "idle"
    /\ \/ rvPC' = "lookup" /\ rvName' = n
       \/ rvPC' = "idle" /\ rvLast' # rvLast /\ rvLast'.fresh /\ rvLast'.name = n

\* this step ends a Resolve with a cache hit
ReturnsHit ==
    rvPC = "idle" /\ rvLast' # rvLast /\ rvLast'.fresh /\ rvLast'.kind = "hit"

\* C6 as stated: a Resolve of the name for which the Resolve before it made
\* an upstream lookup, begun within the TTL of that lookup (here: before the
\* clock moved at all), makes no upstream lookup of its own.
C6_SecondCallNeverLooksUp ==
    [][\A n \in ResolveNames :
          (/\ BeginsResolve(n)
           /\ rvLast.kind = "lookup" /\ rvLast.name = n /\ rvLast.fresh
           /\ rsTTL >= 0)
          => rvPC' = "idle"]_vars

\* C6: when the Resolve before this one looked the same name up and stored a
\* non-empty answer, and this one begins while the TTL is not negative and
\* the time since the second in which the entry was stored is within the TTL,
\* this Resolve makes no upstream lookup and returns the IPs stored; and no
\* Resolve returns an entry older than the TTL.
C6_CachedWithinTTL ==
    [][/\ \A n \in ResolveNames :
            (/\ BeginsResolve(n)
             /\ rvLast.kind = "lookup" /\ rvLast.name = n /\ rvLast.stored)
            => /\ CacheEntry(rsCache, n) # <<>>
               /\ CacheEntry(rsCache, n)[1].IPs = rvLast.IPs
               /\ (rsTTL >= 0 /\ now - CacheEntry(rsCache, n)[1].ts * Second <= rsTTL)
                    => /\ rvPC' = "idle"
                       /\ rvLast'.kind = "hit"
                       /\ rvLast'.IPs = rvLast.IPs
                       /\ rsCache' = rsCache
       /\ ReturnsHit
            => /\ CacheEntry(rsCache, rvLast'.name) # <<>>
               /\ now - CacheEntry(rsCache, rvLast'.name)[1].at <= rsTTL]_vars

\* A Resolve has returned an entry from the cache some time after the Resolve
\* before it stored it.
C6_Witness_HitAfterLookup ==
    /\ rvPC = "idle"
    /\ rvLast.kind = "hit" /\ rvLast.fresh
    /\ CacheEntry(rsCache, rvLast.name) # <<>>
    /\ now > CacheEntry(rsCache, rvLast.name)[1].at

\* C7 as stated: after any Reload, no Resolve runs its lookup with a timeout
\* that is not positive, and none reads the cache with a ttl of zero.
C7_DefaultsHoldAfterReload ==
    rvPC \in {"lookup", "dial", "dialed"} => (rvTimeout > 0 /\ rvLoadTTL # 0)

\* C8: while the TTL is negative no step changes the cache, every Resolve of
\* a name that is not an IP literal goes to the upstream lookup, and none
\* returns a cache hit.
C8_NegativeTTLDisablesCache ==
    [][(rsTTL < 0 /\ rsTTL' < 0)
       => /\ rsCache' = rsCache
          /\ ~ReturnsHit
          /\ \A n \in ResolveNames :
               (BeginsResolve(n) /\ ParseIP(n) = <<>>) => rvPC' = "lookup"]_vars

\* A Resolve begun under a negative TTL is at its upstream lookup although
\* the cache holds an entry for its name that was stored this very second.
C8_Witness_LookupDespiteEntry ==
    /\ rvPC = "dialed"
    /\ rvLoadTTL < 0 /\ rsTTL < 0
    /\ rvDial.conn # 0
    /\ CacheEntry(rsCache, rvName) # <<>>
    /\ now - CacheEntry(rsCache, rvName)[1].at < Second

\* C9 as stated: when the Dial function returns it has dialed the servers in
\* the order of the list, stopped at the first success, returns an error
\* only if every server failed; and with an empty list it still has a
\* connection (of the operating system's resolution) and no error.
C9_DialInOrderOrFallback ==
    rvPC = "dialed" =>
        LET d == rvDial
            k == Len(d.tried)
        IN /\ k <= Len(d.servers)
           /\ \A i \in 1..k :
                /\ d.tried[i].idx = i
                /\ d.tried[i].target = DialTarget(d.servers[i])
                /\ i < k => ~d.tried[i].ok
           /\ d.conn # 0 => (d.conn = k /\ d.tried[k].ok /\ ~d.err)
           /\ d.err => (d.conn = 0 /\ k = Len(d.servers)
                          /\ \A i \in 1..k : ~d.tried[i].ok)
           /\ d.servers = <<>> => (d.conn # 0 /\ ~d.err)

-----------------------------------------------------------------------------
(* RoundStrategy claims *)

\* how many of the first k calls returned had a pool that was not empty
RECURSIVE CountedCalls(_, _)
CountedCalls(picks, k) ==
    IF k = 0 THEN 0
    ELSE CountedCalls(picks, k - 1) + (IF picks[k].n > 0 THEN 1 ELSE 0)

\* how many of the calls returned the node nd
TimesPicked(picks, nd) == Cardinality({i \in 1..Len(picks) : picks[i].node = nd})

\* C10: with the calls made one after the other, the call with index i
\* (from 0) on a pool of N nodes returns nodes[i mod N]; the counter goes up
\* by exactly one per call; and after N*k calls on the same pool every node
\* has been returned exactly k times.  (A call with an empty pool returns
\* Node{} and is not counted.)
C10_RoundRobinSequential ==
    /\ \A i \in 1..Len(rrPicks) :
         IF rrPicks[i].n = 0
         THEN rrPicks[i].node = Node(0)
         ELSE rrPicks[i].node =
                Pool(rrPicks[i].n)[(CountedCalls(rrPicks, i - 1) % rrPicks[i].n) + 1]
    /\ rrCount = CountedCalls(rrPicks, Len(rrPicks))
    /\ \A N \in 1..MaxNodes :
         ((\A i \in 1..Len(rrPicks) : rrPicks[i].n = N) /\ Len(rrPicks) % N = 0)
         => \A j \in 1..N : TimesPicked(rrPicks, Node(j)) * N = Len(rrPicks)

\* Two full rounds over a pool of three nodes have been made.
C10_Witness_TwoRounds ==
    /\ Len(rrPicks) = 6
    /\ \A i \in 1..6 : rrPicks[i].n = 3
    /\ rrPicks[4].node = Node(1)
    /\ rrCount = 6

\* C11 as stated: with several goroutines in Apply at once, no two calls
\* hold the same counter value as their slot, and the counter equals the
\* number of calls (on a pool that is not empty) that have returned.
C11_DistinctSlots ==
    /\ \A g, h \in Goroutines :
         (g # h /\ rrPC[g] = "loaded" /\ rrPC[h] = "loaded") => rrOld[g] # rrOld[h]
    /\ (\A g \in Goroutines : rrPC[g] = "idle")
         => rrCount = CountedCalls(rrPicks, Len(rrPicks))

-----------------------------------------------------------------------------
(* Selector claims *)

\* the node is dropped according to the rule of C12
C12_Dropped(f, nd, t) ==
    nd.failCount >= f.MaxFails /\ t - nd.failTime * Second < f.FailTimeout

C13_FiltersOf(opts) ==
    LET IsFilter(o) == o.opt = "filter"
        fo == SelectSeq(opts, IsFilter)
    IN [i \in 1..Len(fo) |-> fo[i].filter]

\* C13: Select applies the filters in option order, each to what the one
\* before it returned; it returns the error "none available" exactly when
\* the pool left after the last filter is empty; otherwise it returns no
\* error and a node of the pool left, the one its strategy picks, which is a
\* round-robin strategy when no option gives one.
C13_SelectFiltersThenPicks ==
    LET c    == slCall
        fs   == C13_FiltersOf(c.opts)
        left == c.stages[Len(c.stages)]
    IN /\ Len(c.stages) = Len(fs) + 1
       /\ c.stages[1] = c.nodes
       /\ \A k \in 1..Len(fs) :
            c.stages[k + 1] = FailFilter_Filter(fs[k], c.stages[k], c.at)
       /\ (c.err = ErrNoneAvailable) <=> (left = <<>>)
       /\ left # <<>> =>
            /\ c.err = Nil
            /\ \E i \in 1..Len(left) : c.node = left[i]
            /\ c.node = Strategy_Apply(c.sopts.Strategy, left)
       /\ (\A i \in 1..Len(c.opts) : c.opts[i].opt # "strategy")
            => c.sopts.Strategy.kind = "round"

\* Select has returned "none available" for a pool of two nodes, after the
\* second of two filters dropped what the first had left.
C13_Witness_AllDropped ==
    /\ Len(slCall.nodes) = 2
    /\ Len(slCall.sopts.Filters) = 2
    /\ Len(slCall.stages[2]) = 2
    /\ slCall.stages[3] = <<>>
    /\ slCall.err = ErrNoneAvailable

-----------------------------------------------------------------------------
(* Codec claims *)

\* C18: for every name, decodeServerName(encodeServerName(name)) succeeds
\* and returns exactly the name.
C18_RoundTrip ==
    cdCall.op = "encode" => (cdCall.ok /\ cdCall.name = cdCall.in)

\* A name of two bytes, one of them outside the base64 alphabet, has been
\* encoded and decoded.
C18_Witness_TwoByteName ==
    /\ cdCall.op = "encode"
    /\ Len(cdCall.in) = 2
    /\ cdCall.in[1] = 126
    /\ Len(cdCall.text) > 0

\* x decodes to at least four bytes followed by the base64 of a name
C19_WellFormed(x) ==
    /\ B64Decode(x).ok
    /\ Len(B64Decode(x).bytes) >= 4
    /\ B64Decode(Drop(B64Decode(x).bytes, 4)).ok

\* the first four bytes decoded differ from the checksum of the name decoded
C19_CrcMismatch(x) ==
    /\ C19_WellFormed(x)
    /\ Take(B64Decode(x).bytes, 4)
         # ChecksumIEEE(B64Decode(Drop(B64Decode(x).bytes, 4)).bytes)

\* C19 as stated: decodeServerName(x) returns an error exactly when the
\* first four bytes decoded differ from the checksum of the name decoded.
C19_FailsIffCrcMismatch ==
    cdCall.op = "decode" => (~cdCall.ok <=> C19_CrcMismatch(cdCall.in))

\* C19: decodeServerName(x) returns an error exactly when x is not base64,
\* or decodes to fewer than four bytes, or the bytes after the fourth are
\* not the base64 of a name, or the first four bytes differ from the
\* checksum of that name; otherwise it returns that name.
C19_FailsIffMalformedOrMismatch ==
    cdCall.op = "decode" =>
        /\ ~cdCall.ok <=> (~C19_WellFormed(cdCall.in) \/ C19_CrcMismatch(cdCall.in))
        /\ cdCall.ok =>
             cdCall.name = B64Decode(Drop(B64Decode(cdCall.in).bytes, 4)).bytes

\* decodeServerName has refused a well-formed text for its checksum alone.
C19_Witness_MismatchRefused ==
    /\ cdCall.op = "decode"
    /\ ~cdCall.ok
    /\ C19_CrcMismatch(cdCall.in)

-----------------------------------------------------------------------------
(* SNI client claims *)

\* the runs of obfuscate, in the order of the log, that returned no error
C15_Succeeded == {i \in 1..Len(scLog) : scLog[i].ok}

\* C15 as stated: with a decoy host, the write that takes the mutex first is
\* the one rewritten and sets the flag, the flag stays set, and every later
\* write passes its payload on unchanged.
C15_FirstLockerRewrites ==
    scHost # <<>> =>
        /\ Len(scLog) >= 1 =>
             /\ scLog[1].ok /\ ~scLog[1].was
             /\ scLog[1].b = sniClientConn_obfuscate(scLog[1].p, scHost, FALSE).b
             /\ scObfuscated
        /\ \A i \in 2..Len(scLog) : scLog[i].ok /\ scLog[i].b = scLog[i].p

\* C15: with a decoy host, exactly one payload is rewritten: that of the
\* first write, in the order of the mutex, whose rewriting succeeds.  The
\* writes before it fail in obfuscate, leave the flag clear and give the
\* underlying connection nothing; that write sets the flag, which stays
\* set; every later write passes its payload on unchanged.
C15_FirstSuccessRewrites ==
    scHost # <<>> =>
        /\ scObfuscated <=> (C15_Succeeded # {})
        /\ \A i \in 1..Len(scLog) :
             IF \E j \in C15_Succeeded : j < i
             THEN scLog[i].was /\ scLog[i].ok /\ scLog[i].b = scLog[i].p
             ELSE /\ ~scLog[i].was
                  /\ scLog[i].ok =>
                       /\ scLog[i].b
                            = sniClientConn_obfuscate(scLog[i].p, scHost, FALSE).b
                       /\ FirstServerName(scLog[i].p.exts, 1) # 0
                            => scLog[i].b # scLog[i].p
        /\ \A w \in 1..Len(scWire) :
             \E i \in C15_Succeeded : scLog[i].g = scWire[w].g /\ scLog[i].b = scWire[w].b

\* One goroutine's ClientHello has been rewritten and, after it, the other
\* goroutine's ClientHello has passed unchanged; both are on the wire.
C15_Witness_SecondPassesThrough ==
    /\ scHost # <<>>
    /\ Len(scLog) = 2
    /\ scLog[1].g # scLog[2].g
    /\ FirstServerName(scLog[1].p.exts, 1) # 0
    /\ scLog[1].b # scLog[1].p
    /\ scLog[2].p = scLog[1].p
    /\ scLog[2].b = scLog[2].p
    /\ Len(scWire) = 2

-----------------------------------------------------------------------------
(* Hosts claims *)

\* the entries of the table that name host, by hostname or by an alias
C20_Matching(hosts, host) ==
    {i \in 1..Len(hosts) : hosts[i].Hostname = host \/ AliasMatches(hosts[i], host)}

\* C20: Lookup(name) returns the IP of the first entry, in table order, whose
\* hostname or any alias equals name, whatever entries follow it and whether
\* it matches by hostname or by alias; with no such entry, and on a nil
\* table, it returns no IP.
C20_FirstMatchWins ==
    hsCall # NoLookup =>
        IF hsCall.hosts = Nil \/ C20_Matching(hsCall.hosts, hsCall.host) = {}
        THEN hsCall.ip = Nil
        ELSE \E i \in C20_Matching(hsCall.hosts, hsCall.host) :
                /\ \A j \in C20_Matching(hsCall.hosts, hsCall.host) : i <= j
                /\ hsCall.ip = hsCall.hosts[i].IP

-----------------------------------------------------------------------------
(* SNI server claims *)

\* the positions of the 0xFFFE extensions
C14_Obfuscated(exts) == {i \in 1..Len(exts) : exts[i].type = ExtObfuscated}

\* the name of the first server_name extension, if there is one
C14_ServerName(exts) ==
    IF FirstServerName(exts, 1) = 0 THEN <<>>
    ELSE exts[FirstServerName(exts, 1)].name

\* C14: a ClientHello for the real host written through a client
\* connection with a decoy host is a record whose server_name is the decoy
\* and which has a 0xFFFE extension that decodes to the real host; the
\* handler given that record takes the real host as its host and emits a
\* record whose server_name is the real host and which has no 0xFFFE
\* extension.
C14_RewritingRoundTrip ==
    shInput.real # <<>> =>
        /\ shInput.p.kind = "hello"
        /\ C14_ServerName(shInput.p.exts) = shInput.decoy
        /\ \E i \in C14_Obfuscated(shInput.p.exts) :
              LET d == decodeServerName(Drop(ExtensionBytes(shInput.p.exts[i]), 4))
              IN d.ok /\ d.name = shInput.real
        /\ shPC # "peek" =>
              /\ shHost = shInput.real
              /\ shB.kind = "hello"
              /\ C14_ServerName(shB.exts) = shInput.real
              /\ C14_Obfuscated(shB.exts) = {}
              /\ \A k \in 1..Len(shUpstream) :
                    shUpstream[k] # Relayed => shUpstream[k] = shB

\* The record of a client connection has gone through the handler and the
\* rebuilt record has been written upstream.
C14_Witness_RebuiltWritten ==
    /\ shInput.real # <<>>
    /\ shInput.real # shInput.decoy
    /\ shPC = "done"
    /\ shUpstream # <<>>
    /\ shUpstream[1] = shB

\* the calls Handle has made
C16_Events == {shEvents[i] : i \in 1..Len(shEvents)}

\* the permission lists have been asked and refuse the address
C16_DeniedByLists == "can" \in C16_Events /\ shAddr \in shOpts.denied

\* the Bypass has been asked and contains the address
C16_DeniedByBypass ==
    /\ "bypass" \in C16_Events
    /\ ~shOpts.bypass.nil
    /\ Contains(shOpts.bypass.matchers, shOpts.bypass.reversed, shAddr).result

\* C16: once the permission lists refuse tcp host:443, or the Bypass
\* contains host:443, the ingress connection is closed and there is no
\* dial, no write upstream and no relay; the lists are asked before the
\* Bypass and both before the dial.
C16_DenialNeverForwards ==
    /\ (C16_DeniedByLists \/ C16_DeniedByBypass) =>
          /\ shPC = "done"
          /\ shConnClosed
          /\ C16_Events \cap {"dial", "write", "write failed", "relay"} = {}
          /\ ~shDialed
          /\ shUpstream = <<>>
    /\ C16_DeniedByLists => "bypass" \notin C16_Events
    /\ \A i \in 1..Len(shEvents) :
          /\ shEvents[i] = "bypass" => i = 2 /\ shEvents[1] = "can"
          /\ shEvents[i] = "dial" => i = 3 /\ shEvents[2] = "bypass"

\* The host recovered from the 0xFFFE extension passed the permission lists
\* and was refused by the Bypass.
C16_Witness_BypassRefused ==
    /\ C16_DeniedByBypass
    /\ shInput.real # <<>>
    /\ shEvents = <<"can", "bypass">>
    /\ shConnClosed

\* a 0xFFFE extension that does not decode
C17_Invalid(ext) ==
    ext.type = ExtObfuscated /\ ~decodeServerName(Drop(ExtensionBytes(ext), 4)).ok

\* the extensions with the invalid 0xFFFE extensions taken out
C17_WithoutInvalid(exts) == SelectSeq(exts, LAMBDA ext : ~C17_Invalid(ext))

\* C17: an invalid 0xFFFE extension is not fatal and is ignored: the host
\* the handler takes is the host it would take were the extension absent,
\* in every order of the extensions; with no valid 0xFFFE extension it is
\* the name of the server_name extension.
C17_InvalidExtensionIgnored ==
    (shInput.p.kind = "hello" /\ shPC # "peek") =>
        /\ shEvents # <<>> \/ shPC = "can"
        /\ shHost = readClientHelloRecord(
                        HelloRecord(C17_WithoutInvalid(shInput.p.exts)), <<>>, FALSE).host
        /\ (\A i \in C14_Obfuscated(shInput.p.exts) : C17_Invalid(shInput.p.exts[i]))
              => shHost = C14_ServerName(shInput.p.exts)

-----------------------------------------------------------------------------
(* Claims about the options of a handler *)

\* C21: from the start of Handle(conn) until the connection ends, the
\* options the handler and its downstream handler observe are the options
\* as they were when Handle started, whatever Init calls are made on the
\* handler meanwhile.
C21_OptionsAreSnapshot ==
    /\ hpc # "done" => options = hiStart
    /\ \A seen \in hiSeen : seen = hiStart

-----------------------------------------------------------------------------
(* Claims about the mutex of a Bypass *)

\* two goroutines are about to touch the same field, one of them writing
C22_Race ==
    \E g \in Goroutines :
        \E h \in Goroutines \ {g} :
            \E a \in Accesses(g), b \in Accesses(h) : a.field = b.field /\ a.write

\* C22: every read and every write of bp.matchers and bp.reversed is made
\* by the holder of bp.mux, so no read or write of them runs at the same
\* time as a write of them.
C22_AccessesHoldMutex ==
    /\ \A g \in Goroutines : Accesses(g) # {} => baMux = g
    /\ ~C22_Race

-----------------------------------------------------------------------------
(* Claims about the end of a connection and the order of writes *)

\* C23: the relay starts only after the rebuilt ClientHello has been written
\* upstream, which then is the first thing the upstream receives; after a
\* failed write no relay starts and both connections are closed.
C23_RelayOnlyAfterWrite ==
    /\ "relay" \in C16_Events =>
          /\ "write" \in C16_Events
          /\ shUpstream # <<>>
          /\ shUpstream[1] = shB
    /\ "write failed" \in C16_Events =>
          /\ "relay" \notin C16_Events
          /\ shPC = "done" => (shConnClosed /\ shCCClosed)

\* C24: a run of sniHandler.Handle that has returned has closed the ingress
\* connection, whichever way it went, and has closed the upstream connection
\* if one was dialed; autoHandler.Handle, when the peek fails, closes the
\* ingress connection and invokes no handler.
C24_ReturnedHandleHasClosed ==
    /\ shPC = "done" =>
          /\ shConnClosed
          /\ shDialed <=> shCCClosed
    /\ shPC # "done" => ~shCCClosed
    /\ (hpc = "done" /\ stream = <<>>) => (connClosed /\ invoked = <<>>)

\* A run of sniHandler.Handle that dialed and relayed has returned with
\* both connections closed.
C24_Witness_BothClosed ==
    /\ shPC = "done"
    /\ "relay" \in C16_Events
    /\ shDialed /\ shCCClosed /\ shConnClosed

\* C25: with a decoy host, the first thing the underlying connection is
\* given is the rewritten payload: no payload that passed through unchanged
\* is written before it.
C25_RewrittenReachesWireFirst ==
    (scHost # <<>> /\ scWire # <<>>) =>
        \E i \in C15_Succeeded :
            /\ \A j \in C15_Succeeded : i <= j
            /\ scWire[1].b = scLog[i].b

=============================================================================
